---- MODULE Spec2Model ----
(***************************************************************************)
(* collective.transmute: the run command (run, _run_pipeline), the step    *)
(* pipeline engine (_pipeline), the run orchestrator (pipeline), path-drop *)
(* propagation (_add_to_drop), the path filter step (process_paths), the   *)
(* default-page step (process_default_page), the export of items and of    *)
(* the metadata (export_item, export_metadata), the ancestor-prefix       *)
(* helper (all_parents_for), the order of the content files                *)
(* (_sort_content_files), the resolution of the step names (load_step,     *)
(* load_all_steps, check_steps), the id step (process_ids, fix_short_id)   *)
(* and the default-page merge (_merge_items).                              *)
(*                                                                         *)
(* Python strings are modelled as sequences of one-character strings, so   *)
(* that split, join, strip and startswith are computed, not assumed.       *)
(***************************************************************************)
EXTENDS Integers, Sequences, FiniteSets, TLC

VARIABLES
    allowed,          \* pb_config.paths.filter.allowed (set of strings)
    drop,             \* pb_config.paths.filter.drop (set of strings, grows)
    do_not_add_drop,  \* pb_config.pipeline.do_not_add_drop (set of step names)
    steps,            \* the configured step list (sequence of step names)
    content_files,    \* src_files.content, as the items the files hold
    files,            \* number of content files json_reader has read so far
    stack,            \* the live _pipeline invocations, innermost last
    total,            \* pipeline(): local `total`
    processed,        \* pipeline(): local `processed`
    progress,         \* the PipelineProgress tasks as rich shows them
    synth,            \* number of items synthesized by steps so far
    paths,            \* pipeline(): local `paths`, (@id, data file) pairs
    src_item,         \* pipeline(): local `src_item`, the source columns of
                      \* the audit rows of the file being processed
    last,             \* what the engine did in the last action (observation)
    drop0,            \* the drop set at start (observation)
    marked,           \* paths of the containers dropped with propagation
                      \* (observation)
    fn_in,            \* argument of the function under test (function specs)
    fn_out,           \* its result
    pc,               \* where the run command is: "start", "checked",
                      \* "prepared", "loop", "done", "aborted", "failed"
    env,              \* what the run is started with: the paths that exist,
                      \* the step names that resolve, the options
    metadata,         \* the MetadataInfo object shared by the steps
    state,            \* the PipelineState object passed to pipeline()
    dst,              \* the destination tree: data, metadata, relations
    source,           \* the content files of the source directory as
                      \* get_src_files lists them, with their stat()
    migrator          \* the IncrementalMigrator object, its state file and
                      \* the call of migrate_incremental in progress

vars == <<allowed, drop, do_not_add_drop, steps, content_files, files, stack, total,
          processed, progress, synth, paths, src_item, last, drop0, marked,
          fn_in, fn_out, pc, env, metadata, state, dst, source, migrator>>

----------------------------------------------------------------------------
(* Python str helpers *)

SLASH == <<"/">>

\* s.startswith(prefix)
StartsWith(s, prefix) ==
    /\ Len(prefix) <= Len(s)
    /\ SubSeq(s, 1, Len(prefix)) = prefix

\* index of the first "/" in s, 0 when there is none
FirstSlash(s) ==
    IF \E i \in 1..Len(s) : s[i] = "/"
    THEN CHOOSE i \in 1..Len(s) : s[i] = "/" /\ \A j \in 1..(i-1) : s[j] # "/"
    ELSE 0

RECURSIVE Split(_)
\* s.split("/")
Split(s) ==
    IF FirstSlash(s) = 0
    THEN <<s>>
    ELSE <<SubSeq(s, 1, FirstSlash(s) - 1)>>
            \o Split(SubSeq(s, FirstSlash(s) + 1, Len(s)))

RECURSIVE Join(_)
\* "/".join(parts)
Join(parts) ==
    IF parts = <<>> THEN <<>>
    ELSE IF Len(parts) = 1 THEN parts[1]
    ELSE parts[1] \o SLASH \o Join(Tail(parts))

RECURSIVE LStrip(_)
LStrip(s) == IF s # <<>> /\ s[1] = " " THEN LStrip(Tail(s)) ELSE s

RECURSIVE RStrip(_)
RStrip(s) ==
    IF s # <<>> /\ s[Len(s)] = " " THEN RStrip(SubSeq(s, 1, Len(s) - 1)) ELSE s

\* s.strip()
Strip(s) == RStrip(LStrip(s))

----------------------------------------------------------------------------
(* utils/item.py *)

\* range(len(parts)) with the bug of also taking the full path
all_parents_for_full(id_) ==
    LET parts == Split(id_)
    IN  { Join(SubSeq(parts, 1, idx)) : idx \in
            { i \in 0..Len(parts) : Strip(Join(SubSeq(parts, 1, i))) # <<>> } }

all_parents_for(id_) ==
    LET parts == Split(id_)
    IN  { Join(SubSeq(parts, 1, idx)) : idx \in
            { i \in 0..(Len(parts) - 1) :
                Strip(Join(SubSeq(parts, 1, i))) # <<>> } }

----------------------------------------------------------------------------
(* pipeline/__init__.py: _add_to_drop; the value is the new drop set *)

\* _add_to_drop without the already_in_drop test
add_to_drop_unchecked(path, allowed_, drop_) ==
    IF all_parents_for(path) \cap allowed_ = {} THEN drop_
    ELSE drop_ \cup {path}

_add_to_drop(path, allowed_, drop_) ==
    LET parents == all_parents_for(path)
        valid_path == parents \cap allowed_
        already_in_drop == parents \cap drop_
    IN  IF valid_path = {} THEN drop_
        ELSE IF already_in_drop = {} THEN drop_ \cup {path}
        ELSE drop_

----------------------------------------------------------------------------
(* steps/paths.py *)

_is_valid_path(allowed_, drop_, path) ==
    IF drop_ # {} /\ \E prefix \in drop_ : StartsWith(path, prefix)
    THEN FALSE
    ELSE IF allowed_ # {}
         THEN \E prefix \in allowed_ : StartsWith(path, prefix)
         ELSE TRUE

----------------------------------------------------------------------------
(* Items.  A PloneItem is a dict; the keys the engine reads are kept, plus *)
(* `tags`, the indexes of the steps that were invoked on this dict.  An    *)
(* absent result (None) is the record Absent.  `old_uid` is the value of   *)
(* the key _UID ("" when the dict has no such key) and `blobs` the field   *)
(* names of the dict under _blob_files_, in its order: the items are      *)
(* taken as a blobs step prepares them for export_item, which requires the *)
(* key.  `type` is the value of @type and `review_state` the value of      *)
(* review_state ("" when the dict has no such key).                        *)

Absent ==
    [present |-> FALSE, id |-> <<>>, uid |-> "", is_folderish |-> FALSE,
     new |-> FALSE, tags |-> <<>>, old_uid |-> "", blobs |-> <<>>,
     type |-> "", review_state |-> ""]

Item(id_, uid_, folderish_) ==
    [present |-> TRUE, id |-> id_, uid |-> uid_, is_folderish |-> folderish_,
     new |-> FALSE, tags |-> <<>>, old_uid |-> "", blobs |-> <<>>,
     type |-> IF folderish_ THEN "Folder" ELSE "Document",
     review_state |-> IF folderish_ THEN "published" ELSE ""]

\* dict keys, as strings
kAtId       == <<"@", "i", "d">>
kUID        == <<"U", "I", "D">>
kFolderish  == <<"i", "s", "_", "f", "o", "l", "d", "e", "r", "i", "s", "h">>
kNavTitle   == <<"n", "a", "v", "_", "t", "i", "t", "l", "e">>
kImage      == <<"i", "m", "a", "g", "e">>
kOldUID     == <<"_", "U", "I", "D">>
kIsNewItem  == <<"_", "i", "s", "_", "n", "e", "w", "_", "i", "t", "e", "m">>
kBlobFiles  == <<"_", "b", "l", "o", "b", "_", "f", "i", "l", "e", "s", "_">>

\* the keys of the dict an item record stands for
Keys(it) ==
    { kAtId, kFolderish, kBlobFiles }
    \cup (IF it.uid # "" THEN { kUID } ELSE {})
    \cup (IF it.new THEN { kIsNewItem } ELSE {})
    \cup (IF it.old_uid # "" THEN { kOldUID, kNavTitle } ELSE {})

pA    == <<"/", "a">>
pAB   == <<"/", "a", "/", "b">>
pABC  == <<"/", "a", "/", "b", "/", "c">>
pABx  == <<"/", "a", "/", "b", "c">>
pM    == <<"/", "m">>

iAB  == Item(pAB, "u1", TRUE)
iABC == Item(pABC, "u2", TRUE)
iABx == Item(pABx, "u3", FALSE)

pABi  == <<"/", "a", "/", "b", "/", "i">>

\* a page with an image, the default page of /a/b in the runs with links
iABi == [Item(pABi, "u4", FALSE) EXCEPT !.blobs = <<kImage>>]

\* the content files a run may find in the source tree, in reading order
SourceRuns == { <<iAB>>, <<iAB, iABC>>, <<iABC, iAB>>, <<iAB, iABx>> }

AllSteps == { "process_paths", "process_default_page", "step_a", "step_b" }

\* the settings a run may be started with
AllowedChoices == { {}, {pA}, {pAB} }
DropChoices    == { {}, {pABx} }
StepLists ==
    { <<"process_paths">>,
      <<"step_a", "process_paths">>,
      <<"process_paths", "step_a", "step_b">> }
NoDropChoices  == { {}, {"step_a"} }

MaxNew == 1    \* items synthesized by steps in a run

\* the number of nested _pipeline invocations the interpreter allows
\* (sys.getrecursionlimit(), in invocations)
MaxDepth == 3

----------------------------------------------------------------------------
(* Steps.  A step is an async generator: called with the item, it may      *)
(* change the dict in place and yields zero or more results.  An outcome   *)
(* is [mut: the dict after the in-place changes, out: the results], each   *)
(* result being "same" (the dict itself), "none" (None) or "new" (a fresh  *)
(* dict carrying _is_new_item).                                           *)

Moved(it) == [it EXCEPT !.id = pM]

Tagged(it, k) == [it EXCEPT !.tags = Append(@, k)]

NewUids == <<"n1", "n2", "n3", "n4", "n5", "n6", "n7", "n8">>

\* the dict a step synthesizes from `it`
NewItem(it, n) ==
    [present |-> TRUE, id |-> it.id \o <<"/", "n">>, uid |-> NewUids[n],
     is_folderish |-> FALSE, new |-> TRUE, tags |-> <<>>, old_uid |-> "",
     blobs |-> <<>>, type |-> "Image", review_state |-> ""]

\* steps/paths.py: process_paths
process_paths(it, allowed_, drop_) ==
    IF ~_is_valid_path(allowed_, drop_, it.id)
    THEN [mut |-> it, out |-> <<"none">>]
    ELSE [mut |-> it, out |-> <<"same">>]

\* any other step of the step contract
AnyStep(it, canNew) ==
    { [mut |-> it, out |-> o] :
        o \in { <<>>, <<"none">>, <<"same">>, <<"same", "none">> } }
    \cup { [mut |-> Moved(it), out |-> o] : o \in { <<"same">>, <<"none">> } }
    \cup IF canNew
         THEN { [mut |-> it, out |-> o] :
                  o \in { <<"new", "same">>, <<"same", "new">>,
                          <<"new", "none">> } }
         ELSE {}

----------------------------------------------------------------------------
(* Python dicts as functions *)

EmptyDict == [k \in {} |-> k]

\* d[k] = v
Put(d, k, v) == [x \in DOMAIN d \cup {k} |-> IF x = k THEN v ELSE d[x]]

\* d.pop(k, None), the dict that is left
Pop(d, k) == [x \in DOMAIN d \ {k} |-> d[x]]

\* {k: v for k, v in d.items() if k in keys}
Restrict(d, keys) == [x \in DOMAIN d \cap keys |-> d[x]]

Range(seq) == { seq[i] : i \in 1..Len(seq) }

----------------------------------------------------------------------------
(* utils/default_page.py, steps/default_page.py *)

\* pb_config.default_page.keys_from_parent
keys_from_parent == { kAtId, kUID }

\* _merge_items: the item dict after the merge (it is changed in place)
handle_default_page(parent_item, item) ==
    [item EXCEPT !.old_uid = item.uid,
                 !.uid = IF kUID \in keys_from_parent THEN parent_item.uid
                         ELSE "",
                 !.id = IF kAtId \in keys_from_parent THEN parent_item.id
                        ELSE @]

\* process_default_page with the pending map keyed by the container's UID
default_page_by_container(it, md) ==
    IF it.uid \in DOMAIN md.processing_default_page
    THEN LET parent_item == md.processing_default_page[it.uid]
         IN  [mut  |-> handle_default_page(parent_item, it),
              out  |-> <<>>,
              meta |-> [md EXCEPT
                         !.processing_default_page = Pop(@, it.uid),
                         !.fix_relations = Put(@, it.uid, parent_item.uid)]]
    ELSE IF it.uid \in DOMAIN md.default_page
    THEN [mut  |-> it,
          out  |-> <<"none">>,
          meta |-> [md EXCEPT
                     !.default_page = Pop(@, it.uid),
                     !.processing_default_page = Put(@, it.uid, it)]]
    ELSE [mut |-> it, out |-> <<"same">>, meta |-> md]

\* process_default_page with .get in place of .pop: nothing is consumed
default_page_keep_entries(it, md) ==
    IF it.uid \in DOMAIN md.processing_default_page
    THEN LET parent_item == md.processing_default_page[it.uid]
         IN  [mut  |-> handle_default_page(parent_item, it),
              out  |-> <<>>,
              meta |-> [md EXCEPT
                         !.fix_relations = Put(@, it.uid, parent_item.uid)]]
    ELSE IF it.uid \in DOMAIN md.default_page
    THEN [mut  |-> it,
          out  |-> <<"none">>,
          meta |-> [md EXCEPT
                     !.processing_default_page =
                         Put(@, md.default_page[it.uid], it)]]
    ELSE [mut |-> it, out |-> <<"same">>, meta |-> md]

\* process_default_page: the merged child is not yielded, the engine goes on
\* with the dict it passed, which the merge changed in place
process_default_page(it, md) ==
    IF it.uid \in DOMAIN md.processing_default_page
    THEN LET parent_item == md.processing_default_page[it.uid]
         IN  [mut  |-> handle_default_page(parent_item, it),
              out  |-> <<>>,
              meta |-> [md EXCEPT
                         !.processing_default_page = Pop(@, it.uid),
                         !.fix_relations = Put(@, it.uid, parent_item.uid)]]
    ELSE IF it.uid \in DOMAIN md.default_page
    THEN [mut  |-> it,
          out  |-> <<"none">>,
          meta |-> [md EXCEPT
                     !.default_page = Pop(@, it.uid),
                     !.processing_default_page =
                         Put(@, md.default_page[it.uid], it)]]
    ELSE [mut |-> it, out |-> <<"same">>, meta |-> md]

\* a step that synthesizes one item from every item it is called with,
\* synthesized ones included, and then yields the item itself
step_fan(it, md) == [mut |-> it, out |-> <<"new", "same">>, meta |-> md]

\* the outcomes of calling the step `name`: [mut, out] and `meta`, the
\* metadata object as the step leaves it
StepOutcomes(name, it, allowed_, drop_, canNew, md) ==
    IF name = "process_paths"
    THEN { [mut  |-> process_paths(it, allowed_, drop_).mut,
            out  |-> process_paths(it, allowed_, drop_).out,
            meta |-> md] }
    ELSE IF name = "process_default_page"
    THEN { process_default_page(it, md) }
    ELSE IF name = "step_fan"
    THEN { step_fan(it, md) }
    ELSE { [mut |-> oc.mut, out |-> oc.out, meta |-> md] :
             oc \in AnyStep(it, canNew) }

----------------------------------------------------------------------------
(* pipeline/__init__.py: _pipeline.  One frame per live invocation:        *)
(*   item         the loop variable `item` (the working item)              *)
(*   k            index of the step the for loop is at; Len(steps)+1 after *)
(*   running      the step's generator is being iterated (async for)       *)
(*   pend         the results the generator has still to yield             *)
(*   arg          the dict that was passed to the running step             *)
(*   step_name, item_id, item_uid, is_folderish, add_to_drop, src_uid      *)
(*                the locals of lines 114-123                              *)
(*   root         the dict the invocation was called with, as it is now    *)
(*   is_root      the working item is that dict                            *)
(* and, as observation only: pre (the item just before the running step),  *)
(* fan (some step yielded more than one result or a new item), nyield (the *)
(* results this invocation has yielded so far, re-yielded ones included).  *)

Frame(it) ==
    [item |-> it, k |-> 1, running |-> FALSE, pend |-> <<>>, arg |-> Absent,
     arg_root |-> FALSE, step_name |-> "", item_id |-> <<>>, item_uid |-> "",
     is_folderish |-> FALSE, add_to_drop |-> FALSE, src_uid |-> it.uid,
     root |-> it, is_root |-> TRUE, pre |-> Absent, fan |-> FALSE,
     nyield |-> 0]

Top == stack[Len(stack)]

SetTop(stack_, f) == [stack_ EXCEPT ![Len(stack_)] = f]

\* line 117 inverted: every step runs, also on an absent item
never_skip(it) == FALSE

\* line 117: `if not item`
should_skip(it) == ~it.present

\* lines 116-119 without the assignment of step_name
skip_keep_name(f) == [f EXCEPT !.k = f.k + 1]

\* lines 116-119: the step is skipped
skip_step(f) == [f EXCEPT !.step_name = steps[f.k], !.k = f.k + 1]

\* line 141: the generator is exhausted, the for loop moves on
end_step(f) ==
    IF f.running /\ f.pend = <<>>
    THEN [f EXCEPT !.running = FALSE, !.k = f.k + 1]
    ELSE f

\* lines 116-125 with the loop variable cleared before the results are
\* iterated (`item = None` ahead of line 126)
call_step_unbound(f, oc) ==
    [f EXCEPT !.step_name = steps[f.k],
              !.item_id = f.item.id,
              !.item_uid = f.item.uid,
              !.is_folderish = f.item.is_folderish,
              !.add_to_drop = steps[f.k] \notin do_not_add_drop,
              !.pre = f.item,
              !.arg = Tagged(oc.mut, f.k),
              !.arg_root = f.is_root,
              !.item = Absent,
              !.root = IF f.is_root THEN Tagged(oc.mut, f.k) ELSE f.root,
              !.pend = oc.out,
              !.running = TRUE,
              !.fan = f.fan \/ Len(oc.out) >= 2
                            \/ \E i \in 1..Len(oc.out) : oc.out[i] = "new"]

\* lines 116-125: the locals are taken and the step is called
call_step(f, oc) ==
    [f EXCEPT !.step_name = steps[f.k],
              !.item_id = f.item.id,
              !.item_uid = f.item.uid,
              !.is_folderish = f.item.is_folderish,
              !.add_to_drop = steps[f.k] \notin do_not_add_drop,
              !.pre = f.item,
              !.arg = Tagged(oc.mut, f.k),
              !.arg_root = f.is_root,
              !.item = Tagged(oc.mut, f.k),
              !.root = IF f.is_root THEN Tagged(oc.mut, f.k) ELSE f.root,
              !.pend = oc.out,
              !.running = TRUE,
              !.fan = f.fan \/ Len(oc.out) >= 2
                            \/ \E i \in 1..Len(oc.out) : oc.out[i] = "new"]

\* the object a generator yields
ResultItem(kind, f) ==
    CASE kind = "same" -> f.arg
      [] kind = "none" -> Absent
      [] kind = "new"  -> NewItem(f.arg, synth + 1)

\* line 127 without the do_not_add_drop test
marks_drop_always(result, is_folderish, add_to_drop) ==
    ~result.present /\ is_folderish

\* line 127
marks_drop(result, is_folderish, add_to_drop) ==
    ~result.present /\ is_folderish /\ add_to_drop

\* line 131: present and carrying _is_new_item
is_new_result(result) == result.present /\ result.new

\* line 131 with .get in place of .pop: the marker stays on the dict
keep_marker(it) == it

\* line 131: item.pop("_is_new_item")
pop_marker(it) == [it EXCEPT !.new = FALSE]

\* a step's exception caught around the item: the run goes on with the
\* next file
raise_swallowed(stack_) == [pc |-> "loop", stack |-> <<>>]

\* an exception leaves every live invocation of _pipeline and pipeline
raise_in_step(stack_) == [pc |-> "failed", stack |-> <<>>]

\* line 137 resuming after the current step
recurse_resume(stack_, it) ==
    Append(SetTop(stack_, [stack_[Len(stack_)] EXCEPT
                              !.item = it, !.is_root = FALSE,
                              !.pend = Tail(@)]),
           [Frame(it) EXCEPT !.k = stack_[Len(stack_)].k + 1])

\* lines 131-138: the enclosing loop variable is the new dict, and
\* _pipeline(steps, item, ...) is entered for it
recurse(stack_, it) ==
    Append(SetTop(stack_, [stack_[Len(stack_)] EXCEPT
                              !.item = it, !.is_root = FALSE,
                              !.pend = Tail(@)]),
           Frame(it))

RECURSIVE reyield(_, _)
\* line 140, once per enclosing invocation: yield sub_item, last_step, True
reyield(res, depth) ==
    IF depth = 0 THEN res
    ELSE reyield([res EXCEPT !.is_new = TRUE], depth - 1)

----------------------------------------------------------------------------
(* pipeline/__init__.py: pipeline, the body of the loop over the results   *)
(* of _pipeline (lines 200-241); st holds total, processed and progress.   *)

handle(res, st) ==
    IF ~res.item.present
    THEN \* lines 200-201, 210-215: counted, then `continue`
         [total     |-> st.total,
          processed |-> st.processed + 1,
          progress  |-> [st.progress EXCEPT !.processed = @ + 1,
                                            !.dropped = @ + 1]]
    ELSE IF res.is_new
    THEN \* lines 222-227
         [total     |-> st.total + 1,
          processed |-> st.processed + 1,
          progress  |-> [st.progress EXCEPT !.processed = @ + 1,
                                            !.total = st.total + 1]]
    ELSE [total     |-> st.total,
          processed |-> st.processed + 1,
          progress  |-> [st.progress EXCEPT !.processed = @ + 1]]

----------------------------------------------------------------------------
(* pipeline/__init__.py: pipeline, the audit rows and the counters of      *)
(* PipelineState (lines 186-192, 202-229, 236).                            *)

\* defaultdict(int): d[k] += 1
Incr(d, k) == Put(d, k, (IF k \in DOMAIN d THEN d[k] ELSE 0) + 1)

\* dict.get("review_state", "--")
StateOf(it) == IF it.review_state = "" THEN "--" ELSE it.review_state

NoSrcItem ==
    [filename |-> 0, src_path |-> <<>>, src_type |-> "", src_uid |-> "",
     src_state |-> ""]

\* lines 186-192: the source columns, taken from the n-th file when it is read
new_src_item(n, raw_item) ==
    [filename  |-> n,
     src_path  |-> raw_item.id,
     src_type  |-> raw_item.type,
     src_uid   |-> raw_item.uid,
     src_state |-> StateOf(raw_item)]

\* lines 222-226
blank_src(src) ==
    [src EXCEPT !.src_type = "--", !.src_uid = "--", !.src_state = "--"]

\* PipelineItemReport(**src_item, **dst_item) for an absent result
dropped_row(src, last_step) ==
    [filename |-> src.filename, src_path |-> src.src_path,
     src_type |-> src.src_type, src_uid |-> src.src_uid,
     src_state |-> src.src_state,
     dst_path |-> "--", dst_type |-> "--", dst_uid |-> "--",
     dst_state |-> "--", last_step |-> last_step]

\* PipelineItemReport(**src_item, **dst_item) for a present result: the
\* dict of lines 216-221 has no last_step
exported_row(src, it) ==
    [filename |-> src.filename, src_path |-> src.src_path,
     src_type |-> src.src_type, src_uid |-> src.src_uid,
     src_state |-> src.src_state,
     dst_path |-> it.id, dst_type |-> it.type, dst_uid |-> it.uid,
     dst_state |-> StateOf(it)]

\* the audit without line 213: absent results are not counted
audit_uncounted(res, src, st) ==
    IF ~res.item.present
    THEN [src_item |-> src,
          state    |-> [st EXCEPT
                          !.path_transforms =
                              Append(@, dropped_row(src, res.last_step))]]
    ELSE LET src2 == IF res.is_new THEN blank_src(src) ELSE src
         IN  [src_item |-> src2,
              state    |-> [st EXCEPT
                              !.path_transforms =
                                  Append(@, exported_row(src2, res.item)),
                              !.exported = Incr(@, res.item.type)]]

\* lines 203-229 and 236: the row and the counter of one result; src is
\* src_item, st the PipelineState
audit(res, src, st) ==
    IF ~res.item.present
    THEN [src_item |-> src,
          state    |-> [st EXCEPT
                          !.dropped = Incr(@, res.last_step),
                          !.path_transforms =
                              Append(@, dropped_row(src, res.last_step))]]
    ELSE LET src2 == IF res.is_new THEN blank_src(src) ELSE src
         IN  [src_item |-> src2,
              state    |-> [st EXCEPT
                              !.path_transforms =
                                  Append(@, exported_row(src2, res.item)),
                              !.exported = Incr(@, res.item.type)]]

----------------------------------------------------------------------------
(* utils/files.py: export_item.  The value is what is written: the folder  *)
(* content/<UID>, the keys of its data.json, and the blob files.           *)

\* export_item without line 240
export_item_raw(it) ==
    [uid        |-> it.uid,
     data       |-> it.uid,
     keys       |-> (Keys(it) \ { kBlobFiles }) \cup Range(it.blobs),
     blob_files |-> [i \in 1..Len(it.blobs) |-> <<it.uid, it.blobs[i]>>]]

export_item(it) ==
    [uid        |-> it.uid,
     data       |-> it.uid,
     keys       |-> { key \in (Keys(it) \ { kBlobFiles }) \cup Range(it.blobs) :
                        ~StartsWith(key, <<"_">>) },
     blob_files |-> [i \in 1..Len(it.blobs) |-> <<it.uid, it.blobs[i]>>]]

----------------------------------------------------------------------------
(* pipeline/__init__.py: pipeline, lines 229-241, for a present result;    *)
(* ctx holds the PipelineState, the MetadataInfo and the destination.      *)

\* lines 237-241 with the remap built anew for every item
export_reset(it, ctx) ==
    [state    |-> [ctx.state EXCEPT
                     !.seen = { it.uid },
                     !.uids = Put(EmptyDict, it.uid, it.uid)],
     metadata |-> [ctx.metadata EXCEPT
                     !.blob_files = @ \o export_item(it).blob_files],
     dst      |-> [ctx.dst EXCEPT
                     !.data = Put(@, it.uid, export_item(it).keys)]]

\* lines 237-241 without the _UID entry
export_no_old_uid(it, ctx) ==
    [state    |-> [ctx.state EXCEPT
                     !.seen = @ \cup { it.uid },
                     !.uids = Put(@, it.uid, it.uid)],
     metadata |-> [ctx.metadata EXCEPT
                     !.blob_files = @ \o export_item(it).blob_files],
     dst      |-> [ctx.dst EXCEPT
                     !.data = Put(@, it.uid, export_item(it).keys)]]

\* lines 237-241 without seen.add
export_unseen(it, ctx) ==
    [state    |-> [ctx.state EXCEPT
                     !.uids = IF it.old_uid # ""
                              THEN Put(Put(@, it.uid, it.uid),
                                       it.old_uid, it.uid)
                              ELSE Put(@, it.uid, it.uid)],
     metadata |-> [ctx.metadata EXCEPT
                     !.blob_files = @ \o export_item(it).blob_files],
     dst      |-> [ctx.dst EXCEPT
                     !.data = Put(@, it.uid, export_item(it).keys)]]

export(it, ctx) ==
    [state    |-> [ctx.state EXCEPT
                     !.seen = @ \cup { it.uid },
                     !.uids = IF it.old_uid # ""
                              THEN Put(Put(@, it.uid, it.uid),
                                       it.old_uid, it.uid)
                              ELSE Put(@, it.uid, it.uid)],
     metadata |-> [ctx.metadata EXCEPT
                     !.blob_files = @ \o export_item(it).blob_files],
     dst      |-> [ctx.dst EXCEPT
                     !.data = Put(@, it.uid, export_item(it).keys)]]

----------------------------------------------------------------------------
(* utils/exportimport/__init__.py *)

RECURSIVE prepare_relations_data(_, _)
\* lines 78-90: the list written to relations.json
prepare_relations_data(relations, uids) ==
    IF relations = <<>> THEN <<>>
    ELSE LET item == Head(relations)
             from_uuid == IF item.from_uuid \in DOMAIN uids
                          THEN uids[item.from_uuid] ELSE ""
             to_uuid == IF item.to_uuid \in DOMAIN uids
                        THEN uids[item.to_uuid] ELSE ""
         IN  (IF from_uuid # "" /\ to_uuid # "" /\ from_uuid # to_uuid
              THEN << [from_attribute |-> item.relationship,
                       from_uuid |-> from_uuid,
                       to_uuid |-> from_uuid] >>
              ELSE <<>>)
             \o prepare_relations_data(Tail(relations), uids)

\* prepare_metadata_file filtering by the seen set
metadata_file_by_seen(md, st, keep) ==
    [default_page |-> IF keep THEN Restrict(md.default_page, st.seen)
                      ELSE EmptyDict,
     ordering     |-> Restrict(md.ordering, st.seen),
     local_roles  |-> Restrict(md.local_roles, st.seen),
     relations    |-> <<>>,
     blob_files   |-> md.blob_files,
     data_files   |-> md.data_files]

\* lines 56-65: the dict written to __metadata__.json (the keys starting
\* with "__" are removed; `keep` is pb_config.default_pages.keep)
prepare_metadata_file(md, st, keep) ==
    [default_page |-> IF keep THEN Restrict(md.default_page, DOMAIN st.uids)
                      ELSE EmptyDict,
     ordering     |-> Restrict(md.ordering, DOMAIN st.uids),
     local_roles  |-> Restrict(md.local_roles, DOMAIN st.uids),
     relations    |-> <<>>,
     blob_files   |-> md.blob_files,
     data_files   |-> md.data_files]

NoMetadataFile ==
    [default_page |-> EmptyDict, ordering |-> EmptyDict,
     local_roles |-> EmptyDict, relations |-> <<>>, blob_files |-> <<>>,
     data_files |-> <<>>]

\* utils/files.py: export_metadata, the destination after it
export_metadata(md, st, keep, d) ==
    [d EXCEPT
       !.relations = [written |-> TRUE,
                      data |-> prepare_relations_data(md.relations, st.uids)],
       !.metadata = [written |-> TRUE,
                     data |-> prepare_metadata_file(md, st, keep)]]

----------------------------------------------------------------------------
(* utils/__init__.py, utils/files.py: what the run command checks first *)

RECURSIVE FromList(_)
\* {item["uuid"]: item[...] for item in data}: later items win
FromList(items) ==
    IF items = <<>> THEN EmptyDict
    ELSE Put(FromList(SubSeq(items, 1, Len(items) - 1)),
             items[Len(items)].uuid, items[Len(items)].value)

\* initialize_metadata: the MetadataInfo built from the source metadata files
initialize_metadata(src) ==
    [default_page            |-> FromList(src.defaultpages),
     local_roles             |-> FromList(src.localroles),
     ordering                |-> FromList(src.ordering),
     relations               |-> src.relations,
     processing_default_page |-> EmptyDict,
     fix_relations           |-> EmptyDict,
     blob_files              |-> <<>>,
     data_files              |-> <<>>]

NoSrcMetadata ==
    [defaultpages |-> <<>>, localroles |-> <<>>, ordering |-> <<>>,
     relations |-> <<>>]

\* commands/transmute.py: _create_state
_create_state(total_) ==
    [total |-> total_, processed |-> 0, seen |-> {}, uids |-> EmptyDict,
     exported |-> EmptyDict, dropped |-> EmptyDict, path_transforms |-> <<>>]

NoFile(data_) == [written |-> FALSE, data |-> data_]

EmptyDst ==
    [data |-> EmptyDict, metadata |-> NoFile(NoMetadataFile),
     relations |-> NoFile(<<>>)]

\* check_paths: TRUE when it returns, FALSE when it raises RuntimeError
check_paths(env_) == env_.src_exists /\ env_.dst_exists

\* load_all_steps that resolves nothing before the loop
load_all_steps_lazy(names, env_) == TRUE

\* load_all_steps: TRUE when every name resolves, FALSE when load_step raises
load_all_steps(names, env_) ==
    \A i \in 1..Len(names) : names[i] \in env_.loadable

----------------------------------------------------------------------------
(* pipeline/__init__.py, lines 247-250: sorted(paths) on (str, str) tuples *)

\* the characters of the model's paths, by ascending code point
CodePoints ==
    <<" ", "%", "-", ".", "/", "0", "1", "2", "3", "4", "5", "6", "7", "8",
      "9", "_", "a", "b", "c", "i", "m", "n", "x">>

\* the data files of the model ("<UID>/data.json"), in str order
DataFiles ==
    <<"n1", "n2", "n3", "n4", "n5", "n6", "n7", "n8", "u0", "u1", "u2", "u3",
      "u4">>

IndexOf(seq, x) == CHOOSE i \in 1..Len(seq) : seq[i] = x

RECURSIVE StrLess(_, _)
\* str.__lt__ on two sequences of characters
StrLess(a, b) ==
    IF b = <<>> THEN FALSE
    ELSE IF a = <<>> THEN TRUE
    ELSE IF Head(a) = Head(b) THEN StrLess(Tail(a), Tail(b))
    ELSE IndexOf(CodePoints, Head(a)) < IndexOf(CodePoints, Head(b))

\* tuple.__lt__ on two (@id, data file) pairs
PairLess(p, q) ==
    \/ StrLess(p[1], q[1])
    \/ p[1] = q[1] /\ IndexOf(DataFiles, p[2]) < IndexOf(DataFiles, q[2])

RECURSIVE Insert(_, _)
Insert(seq, p) ==
    IF seq = <<>> THEN <<p>>
    ELSE IF PairLess(p, Head(seq)) THEN <<p>> \o seq
    ELSE <<Head(seq)>> \o Insert(Tail(seq), p)

\* line 250 without line 247
paths_unsorted(seq) == seq

RECURSIVE sorted(_)
\* line 247: sorted(paths), stable
sorted(seq) ==
    IF seq = <<>> THEN <<>>
    ELSE Insert(sorted(SubSeq(seq, 1, Len(seq) - 1)), seq[Len(seq)])

\* line 250: [i[1] for i in paths]
data_files(seq) == [i \in 1..Len(seq) |-> seq[i][2]]

----------------------------------------------------------------------------
(* The variables of the incremental wrapper, unused by a plain run *)

incr == <<source, migrator>>

NoIncr ==
    /\ source = <<>>
    /\ migrator = [batch_size |-> 0]

----------------------------------------------------------------------------
(* The run *)

config == <<allowed, do_not_add_drop, steps, content_files, drop0>>
counters == <<total, processed, progress>>
fn == <<fn_in, fn_out>>

NoFn == [done |-> FALSE, val |-> {}]

Init ==
    /\ allowed \in AllowedChoices
    /\ drop = {}
    /\ drop0 = drop
    /\ do_not_add_drop \in NoDropChoices
    /\ steps \in StepLists
    /\ content_files \in SourceRuns
    /\ files = 0
    /\ stack = <<>>
    /\ total = Len(content_files)
    /\ processed = 0
    /\ progress = [processed |-> 0, total |-> Len(content_files), dropped |-> 0]
    /\ synth = 0
    /\ paths = <<>>
    /\ src_item = NoSrcItem
    /\ NoIncr
    /\ marked = {}
    /\ last = [op |-> "init"]
    /\ fn_in = <<>>
    /\ fn_out = NoFn
    /\ pc = "loop"
    /\ env = [src_exists |-> TRUE, dst_exists |-> TRUE, loadable |-> AllSteps,
              clean_up |-> FALSE, keep |-> FALSE,
              src_metadata |-> NoSrcMetadata]
    /\ metadata = initialize_metadata(NoSrcMetadata)
    /\ state = _create_state(Len(content_files))
    /\ dst = EmptyDst

\* the next file is handed over while the results of the one before are
\* still being produced
ReadFile_ahead ==
    /\ pc = "loop"
    /\ files < Len(content_files)
    /\ files' = files + 1
    /\ stack' = <<Frame(content_files[files + 1])>>
    /\ src_item' = new_src_item(files + 1, content_files[files + 1])
    /\ last' = [op |-> "read", uid |-> content_files[files + 1].uid]
    /\ UNCHANGED incr
    /\ UNCHANGED <<config, counters, drop, synth, paths, marked, fn, pc, env,
                   metadata, state, dst>>

\* line 185-199: json_reader hands over the next file, _pipeline is entered
ReadFile ==
    /\ pc = "loop"
    /\ stack = <<>>
    /\ files < Len(content_files)
    /\ files' = files + 1
    /\ stack' = <<Frame(content_files[files + 1])>>
    /\ src_item' = new_src_item(files + 1, content_files[files + 1])
    /\ last' = [op |-> "read", uid |-> content_files[files + 1].uid]
    /\ UNCHANGED incr
    /\ UNCHANGED <<config, counters, drop, synth, paths, marked, fn, pc, env,
                   metadata, state, dst>>

\* lines 115-119: a step is skipped
SkipStep ==
    /\ stack # <<>>
    /\ ~Top.running
    /\ Top.k <= Len(steps)
    /\ should_skip(Top.item)
    /\ stack' = SetTop(stack, skip_step(Top))
    /\ last' = [op |-> "skip", depth |-> Len(stack), k |-> Top.k,
                uid |-> Top.src_uid]
    /\ UNCHANGED incr
    /\ UNCHANGED <<src_item, config, counters, drop, files, synth, paths, marked, fn, pc, env,
                   metadata, state, dst>>

\* lines 115-126: a step is called on the working item
StartStep ==
    /\ stack # <<>>
    /\ ~Top.running
    /\ Top.k <= Len(steps)
    /\ ~should_skip(Top.item)
    /\ \E oc \in StepOutcomes(steps[Top.k], Top.item, allowed, drop,
                              synth < MaxNew, metadata) :
        /\ stack' = SetTop(stack, end_step(call_step(Top, oc)))
        /\ metadata' = oc.meta
        /\ last' = [op |-> "call", depth |-> Len(stack), k |-> Top.k,
                    uid |-> Top.src_uid, step |-> steps[Top.k],
                    pre |-> Top.item, out |-> oc.out]
    /\ UNCHANGED incr
    /\ UNCHANGED <<src_item, config, counters, drop, files, synth, paths, marked, fn, pc, env,
                   state, dst>>

\* lines 125-126: the step raises, when called or between two results; no
\* invocation of _pipeline and no line of pipeline catches it
StepRaises ==
    /\ stack # <<>>
    /\ Top.k <= Len(steps)
    /\ \/ ~Top.running /\ ~should_skip(Top.item)
       \/ Top.running /\ Top.pend # <<>>
    /\ steps[Top.k] \notin { "process_paths", "process_default_page" }
    /\ pc' = raise_in_step(stack).pc
    /\ stack' = raise_in_step(stack).stack
    /\ last' = [op |-> "raise", depth |-> Len(stack), k |-> Top.k,
                uid |-> Top.src_uid, step |-> steps[Top.k]]
    /\ UNCHANGED incr
    /\ UNCHANGED <<src_item, config, counters, drop, files, synth, paths, marked, fn, env,
                   metadata, state, dst>>

\* lines 126-138: the next result of the running step
NextResult ==
    /\ stack # <<>>
    /\ Top.running
    /\ Top.pend # <<>>
    /\ LET f == Top
           r == ResultItem(Head(f.pend), f)
           calls == marks_drop(r, f.is_folderish, f.add_to_drop)
           new == ~calls /\ is_new_result(r)
       IN  /\ new => Len(stack) < MaxDepth
           /\ drop' = IF calls THEN _add_to_drop(f.item_id, allowed, drop)
                      ELSE drop
           /\ stack' =
                IF new THEN recurse(stack, pop_marker(r))
                ELSE SetTop(stack,
                        end_step([f EXCEPT !.item = r,
                                           !.is_root = r.present /\ f.arg_root,
                                           !.pend = Tail(@)]))
           /\ synth' = IF new THEN synth + 1 ELSE synth
           /\ marked' = IF ~r.present /\ f.pre.is_folderish
                           /\ f.step_name \notin do_not_add_drop
                        THEN marked \cup {f.pre.id} ELSE marked
           /\ last' = [op |-> IF new THEN "recurse" ELSE "result",
                       depth |-> Len(stack), k |-> f.k, uid |-> f.src_uid,
                       step |-> f.step_name, pre |-> f.pre, result |-> r,
                       called |-> calls, path |-> f.item_id,
                       before |-> drop]
    /\ UNCHANGED incr
    /\ UNCHANGED <<src_item, config, counters, files, paths, fn, pc, env, metadata,
                   state, dst>>

\* lines 137-139 when the interpreter allows no further nested invocation:
\* RecursionError leaves every live invocation and pipeline
RecursionError ==
    /\ stack # <<>>
    /\ Top.running
    /\ Top.pend # <<>>
    /\ LET f == Top
           r == ResultItem(Head(f.pend), f)
       IN  /\ ~marks_drop(r, f.is_folderish, f.add_to_drop)
           /\ is_new_result(r)
           /\ Len(stack) >= MaxDepth
           /\ last' = [op |-> "recursion", depth |-> Len(stack), k |-> f.k,
                       uid |-> f.src_uid, step |-> f.step_name]
    /\ pc' = raise_in_step(stack).pc
    /\ stack' = raise_in_step(stack).stack
    /\ UNCHANGED incr
    /\ UNCHANGED <<src_item, config, counters, drop, files, synth, paths, marked, fn,
                   env, metadata, state, dst>>

\* the frames enclosing a finished nested run: each has re-yielded one more
\* result, and the innermost of them, whose loop variable is the nested
\* run's dict, resumes its `async for`
Resume(stack_, f) ==
    LET rest == SubSeq(stack_, 1, Len(stack_) - 1)
        n == Len(rest)
    IN  [i \in 1..n |->
            IF i = n
            THEN end_step([rest[i] EXCEPT !.item = f.root,
                                          !.nyield = @ + 1])
            ELSE [rest[i] EXCEPT !.nyield = @ + 1]]

\* line 142 (and line 140 in every enclosing invocation), then the loop
\* body of pipeline, lines 200-241, for the result
Yield ==
    /\ stack # <<>>
    /\ ~Top.running
    /\ Top.k = Len(steps) + 1
    /\ LET f == Top
           own == [item |-> f.item, last_step |-> f.step_name,
                   is_new |-> FALSE]
           res == reyield(own, Len(stack) - 1)
           st == handle(res, [total |-> total, processed |-> processed,
                              progress |-> progress])
           aud == audit(res, src_item, state)
           ctx == [state |-> aud.state, metadata |-> metadata, dst |-> dst]
           out == IF res.item.present THEN export(res.item, ctx) ELSE ctx
       IN  /\ total' = st.total
           /\ processed' = st.processed
           /\ progress' = st.progress
           /\ src_item' = aud.src_item
           /\ state' = out.state
           /\ metadata' = out.metadata
           /\ dst' = out.dst
           /\ paths' = IF res.item.present
                       THEN Append(paths, <<res.item.id,
                                            export_item(res.item).data>>)
                       ELSE paths
           /\ stack' = Resume(stack, f)
           /\ last' = [op |-> "yield", depth |-> Len(stack),
                       uid |-> f.src_uid, own |-> own, res |-> res,
                       fan |-> f.fan, nyield |-> f.nyield + 1,
                       is_root |-> f.is_root, tags |-> f.root.tags]
    /\ UNCHANGED incr
    /\ UNCHANGED <<config, drop, files, synth, marked, fn, pc, env>>

\* lines 243-253: the loop is over, the metadata files are written
Finish ==
    /\ pc = "loop"
    /\ stack = <<>>
    /\ files = Len(content_files)
    /\ paths' = sorted(paths)
    /\ metadata' = [metadata EXCEPT !.data_files = data_files(paths')]
    /\ dst' = export_metadata(metadata', state, env.keep, dst)
    /\ pc' = "done"
    /\ last' = [op |-> "export"]
    /\ UNCHANGED incr
    /\ UNCHANGED <<src_item, config, counters, drop, files, stack, synth, marked, fn,
                   env, state>>

Next ==
    ReadFile \/ SkipStep \/ StartStep \/ StepRaises \/ NextResult \/ Yield
        \/ Finish

Spec == Init /\ [][Next]_vars

\* the item loop has ended without an exception
RunDone ==
    pc \in { "loop", "done" } /\ stack = <<>> /\ files = Len(content_files)

----------------------------------------------------------------------------
(* The run command from its first line (commands/transmute.py), over a     *)
(* source with default pages, ordering, local roles and relations.         *)

\* the source metadata files: /a/b has the default page /a/b/i; "u9" is
\* an object that is not among the content files
SrcMetadata ==
    [defaultpages |-> << [uuid |-> "u1", value |-> "u4"] >>,
     localroles   |-> << [uuid |-> "u4", value |-> "owner"],
                         [uuid |-> "u9", value |-> "owner"] >>,
     ordering     |-> << [uuid |-> "u1", value |-> 0],
                         [uuid |-> "u4", value |-> 1],
                         [uuid |-> "u3", value |-> 2],
                         [uuid |-> "u9", value |-> 3] >>,
     relations    |-> << [from_uuid |-> "u3", to_uuid |-> "u4",
                          relationship |-> "relatedItems"],
                         [from_uuid |-> "u3", to_uuid |-> "u9",
                          relationship |-> "relatedItems"],
                         [from_uuid |-> "u4", to_uuid |-> "u1",
                          relationship |-> "relatedItems"] >>]

MetaRuns ==
    { <<iAB, iABi>>, <<iABi, iAB>>, <<iAB, iABi, iABx>>, <<iABx, iABi, iAB>> }

MetaStepLists ==
    { <<"process_default_page">>,
      <<"process_default_page", "step_a">>,
      <<"process_default_page", "process_default_page", "process_paths">> }

\* what the destination holds from an earlier run
StaleDst == [EmptyDst EXCEPT !.data = Put(EmptyDict, "u0", { kUID })]

InitMeta ==
    /\ allowed \in { {}, {pA} }
    /\ drop \in DropChoices
    /\ drop0 = drop
    /\ do_not_add_drop \in { {}, {"process_default_page"} }
    /\ steps \in MetaStepLists
    /\ content_files \in MetaRuns
    /\ files = 0
    /\ stack = <<>>
    /\ total = 0
    /\ processed = 0
    /\ progress = [processed |-> 0, total |-> 0, dropped |-> 0]
    /\ synth = 0
    /\ paths = <<>>
    /\ src_item = NoSrcItem
    /\ NoIncr
    /\ marked = {}
    /\ last = [op |-> "init"]
    /\ fn_in = <<>>
    /\ fn_out = NoFn
    /\ pc = "start"
    /\ \E dirs \in { <<TRUE, TRUE>>, <<FALSE, TRUE>>, <<TRUE, FALSE>> },
          loadable \in { AllSteps, AllSteps \ {"step_a"} },
          clean_up \in BOOLEAN, keep \in BOOLEAN :
          /\ env = [src_exists |-> dirs[1], dst_exists |-> dirs[2],
                    loadable |-> loadable, clean_up |-> clean_up,
                    keep |-> keep, src_metadata |-> SrcMetadata]
          /\ dst = IF dirs[2] THEN StaleDst ELSE EmptyDst
    /\ metadata = initialize_metadata(NoSrcMetadata)
    /\ state = _create_state(0)

\* run, line 131: check_paths
CheckPaths ==
    /\ pc = "start"
    /\ pc' = IF check_paths(env) THEN "checked" ELSE "aborted"
    /\ last' = [op |-> "check_paths"]
    /\ UNCHANGED incr
    /\ UNCHANGED <<src_item, config, counters, drop, files, stack, synth, paths, marked, fn,
                   env, metadata, state, dst>>

\* _run_pipeline, lines 84-91: the files are listed, the destination is
\* emptied when asked, the PipelineState and the progress are created
RunPipeline ==
    /\ pc = "checked"
    /\ dst' = IF env.clean_up THEN EmptyDst ELSE dst
    /\ state' = _create_state(Len(content_files))
    /\ progress' = [processed |-> 0, total |-> Len(content_files),
                    dropped |-> 0]
    /\ pc' = "prepared"
    /\ last' = [op |-> "run_pipeline"]
    /\ UNCHANGED incr
    /\ UNCHANGED <<src_item, config, total, processed, drop, files, stack, synth, paths,
                   marked, fn, env, metadata>>

\* pipeline, lines 168-184: the metadata is read, the steps are resolved,
\* the counters are taken from the PipelineState
StartPipeline ==
    /\ pc = "prepared"
    /\ metadata' = initialize_metadata(env.src_metadata)
    /\ IF load_all_steps(steps, env)
       THEN /\ pc' = "loop"
            /\ total' = state.total
            /\ processed' = state.processed
       ELSE /\ pc' = "aborted"
            /\ UNCHANGED <<total, processed>>
    /\ last' = [op |-> "pipeline"]
    /\ UNCHANGED incr
    /\ UNCHANGED <<src_item, config, progress, drop, files, stack, synth, paths, marked, fn,
                   env, state, dst>>

NextMeta ==
    CheckPaths \/ RunPipeline \/ StartPipeline \/ ReadFile \/ SkipStep
        \/ StartStep \/ StepRaises \/ NextResult \/ Yield \/ Finish

SpecMeta == InitMeta /\ [][NextMeta]_vars

----------------------------------------------------------------------------
(* all_parents_for on its own: every string up to MaxLen characters *)

MaxLen == 6

Chars == { "/", "a", " " }

Strings == UNION { [1..n -> Chars] : n \in 0..MaxLen }

run == <<allowed, drop, do_not_add_drop, steps, content_files, files, stack,
         total, processed, progress, synth, paths, src_item, drop0, marked,
         pc, env, metadata, state, dst>>

\* the run variables of a specification that only calls a function
NoRun ==
    /\ do_not_add_drop = {}
    /\ steps = <<>>
    /\ content_files = <<>>
    /\ files = 0
    /\ stack = <<>>
    /\ total = 0
    /\ processed = 0
    /\ progress = [processed |-> 0, total |-> 0, dropped |-> 0]
    /\ synth = 0
    /\ paths = <<>>
    /\ src_item = NoSrcItem
    /\ marked = {}
    /\ pc = "start"
    /\ env = [src_exists |-> TRUE, dst_exists |-> TRUE, loadable |-> AllSteps,
              clean_up |-> FALSE, keep |-> FALSE,
              src_metadata |-> NoSrcMetadata]
    /\ metadata = initialize_metadata(NoSrcMetadata)
    /\ state = _create_state(0)
    /\ dst = EmptyDst

InitParents ==
    /\ NoRun
    /\ NoIncr
    /\ allowed = {}
    /\ drop = {}
    /\ drop0 = {}
    /\ last = [op |-> "init"]
    /\ fn_in \in Strings
    /\ fn_out = NoFn

CallAllParents ==
    /\ ~fn_out.done
    /\ fn_out' = [done |-> TRUE, val |-> all_parents_for(fn_in)]
    /\ UNCHANGED <<run, incr, last, fn_in>>

NextParents == CallAllParents

SpecParents == InitParents /\ [][NextParents]_vars

----------------------------------------------------------------------------
(* _add_to_drop on its own: any sequence of calls, in any order *)

pMN == <<"/", "m", "/", "n">>

DropPaths == { pA, pAB, pABC, pABx, pM, pMN }

InitDrop ==
    /\ NoRun
    /\ NoIncr
    /\ allowed \in SUBSET { pA, pAB, pM }
    /\ drop \in SUBSET { pAB, pABx }
    /\ drop0 = drop
    /\ last = [op |-> "init"]
    /\ fn_in = <<>>
    /\ fn_out = NoFn

CallAddToDrop ==
    /\ \E path \in DropPaths :
        /\ drop' = _add_to_drop(path, allowed, drop)
        /\ last' = [op |-> "add_to_drop", path |-> path, before |-> drop,
                    allowed |-> allowed]
    /\ UNCHANGED incr
    /\ UNCHANGED <<src_item, allowed, do_not_add_drop, steps, content_files, files,
                   stack, total, processed, progress, synth, paths, drop0, marked,
                   fn, pc, env, metadata, state, dst>>

NextDrop == CallAddToDrop

SpecDrop == InitDrop /\ [][NextDrop]_vars

----------------------------------------------------------------------------
(* Properties *)

\* p is a path-ancestor of q at a component boundary, and is not q
StrictAncestor(p, q) ==
    /\ p # <<>>
    /\ Len(p) < Len(q)
    /\ SubSeq(q, 1, Len(p)) = p
    /\ q[Len(p) + 1] = "/"

\* the proper prefixes of s that end just before a "/" of s
Ancestors(s) == { SubSeq(s, 1, i - 1) : i \in { j \in 2..Len(s) : s[j] = "/" } }

\* an absolute path whose components are all non-empty
WellFormedPath(s) ==
    /\ Len(s) >= 2
    /\ s[1] = "/"
    /\ s[Len(s)] # "/"
    /\ \A i \in 1..(Len(s) - 1) : ~(s[i] = "/" /\ s[i + 1] = "/")

NumComponents(s) == Cardinality({ i \in 1..Len(s) : s[i] = "/" })

UpTo(n) == [i \in 1..n |-> i]

\* C1: when a step at any position yields a present item carrying the
\* _is_new_item marker, the marker is removed and a nested run is entered for
\* that item at the first step; every result of a nested run reaches the
\* orchestrator with is_synthesized = TRUE, and the item of a nested run has
\* been passed through the steps 1, 2, ... in order (all of them when it is
\* still the working item at the end).
C1_FanOutReentry ==
    /\ last.op = "recurse" =>
          /\ last.result.present /\ last.result.new
          /\ Len(stack) = last.depth + 1
          /\ Top.k = 1
          /\ ~Top.running
          /\ Top.item = [last.result EXCEPT !.new = FALSE]
          /\ Top.item.tags = <<>>
    /\ (last.op = "yield" /\ last.depth > 1) =>
          /\ last.res.is_new = TRUE
          /\ last.res.item = last.own.item
          /\ last.res.last_step = last.own.last_step
          /\ \E j \in 1..Len(steps) : last.tags = UpTo(j)
          /\ (last.is_root /\ last.own.item.present) =>
                last.tags = UpTo(Len(steps))
    /\ \A i \in 1..Len(stack) :
          (stack[i].is_root /\ ~stack[i].running) =>
              stack[i].root.tags = UpTo(stack[i].k - 1)

\* C1 witness: the step at position 2 of 3 synthesized an item, and the
\* nested run has yielded it, present, after steps 1, 2, 3.
C1_Witness ==
    /\ last.op = "yield"
    /\ last.depth = 2
    /\ last.res.is_new
    /\ last.own.item.present
    /\ last.tags = <<1, 2, 3>>
    /\ stack # <<>>
    /\ Top.step_name = "step_a"
    /\ Len(steps) = 3

\* C2: an invocation in which no step fans out and some step yields absent
\* yields exactly one result, (absent, name of the last configured step,
\* is_synthesized = FALSE).
C2_DropReportsLastStep ==
    (last.op = "yield" /\ ~last.fan /\ ~last.own.item.present) =>
        /\ last.own = [item |-> Absent, last_step |-> steps[Len(steps)],
                       is_new |-> FALSE]
        /\ last.nyield = 1

\* C2 witness: an item dropped at step 2 of 3 has been yielded.
C2_Witness ==
    /\ last.op = "yield"
    /\ ~last.fan
    /\ ~last.own.item.present
    /\ Len(steps) = 3
    /\ last.tags = <<1, 2>>
    /\ last.own.last_step = "step_b"

\* C3: once the working item of an invocation is absent, the only thing the
\* invocation does with a remaining step is to skip it: no step is called,
\* and the drop set and every other part of the state are left alone.
C3_AbsentSkipsRest ==
    [][ (stack # <<>> /\ ~Top.running /\ Top.k <= Len(steps)
            /\ ~Top.item.present)
        => /\ last'.op = "skip"
           /\ stack' = SetTop(stack, [Top EXCEPT !.k = @ + 1,
                                                 !.step_name = steps[Top.k]])
           /\ drop' = drop
           /\ marked' = marked
           /\ synth' = synth
           /\ UNCHANGED <<total, processed, progress>> ]_vars

\* C3 witness: an item dropped by step 1 of 3 has had steps 2 and 3 skipped.
C3_Witness ==
    /\ last.op = "skip"
    /\ last.k = 3
    /\ Top.root.tags = <<1>>
    /\ ~Top.item.present
    /\ Top.k = 4

\* C4: _add_to_drop is called for a step result exactly when the result is
\* absent, the item was folderish just before the step ran, and the step is
\* not in do_not_add_drop; the path passed is the @id the item had just
\* before the step ran.
C4_AddToDropIff ==
    last.op \in {"result", "recurse"} =>
        /\ last.called <=>
              (/\ ~last.result.present
               /\ last.pre.is_folderish
               /\ last.step \notin do_not_add_drop)
        /\ last.called => last.path = last.pre.id
        /\ ~last.called => drop = last.before

\* C4 witness: a step moved a container and then dropped it; the path of
\* before the step was passed.
C4_Witness ==
    /\ last.op = "result"
    /\ last.called
    /\ last.path = pAB
    /\ stack # <<>>
    /\ Top.arg.id = pM
    /\ do_not_add_drop # {}

\* C5 (as claimed): after a container with path p was dropped by a step that
\* propagates drops, process_paths yields absent for every later item that
\* has p as a strict ancestor, whatever the allowed set and the initial drop
\* set.  The code does not satisfy this.
C5_DescendantsRejected ==
    (/\ last.op = "call"
     /\ last.step = "process_paths"
     /\ \E p \in marked : StrictAncestor(p, last.pre.id))
    => last.out = <<"none">>

\* C6: _add_to_drop(path) leaves the drop set unchanged when no strict
\* ancestor of path is allowed; otherwise it adds path exactly when no strict
\* ancestor of path is in the drop set; the allowed set is unchanged and no
\* entry is removed.
C6_AddToDrop ==
    last.op = "add_to_drop" =>
        LET anc == Ancestors(last.path)
        IN  /\ (anc \cap last.allowed = {}) => drop = last.before
            /\ (anc \cap last.allowed # {}) =>
                  drop = IF anc \cap last.before = {}
                         THEN last.before \cup {last.path}
                         ELSE last.before
            /\ last.before \subseteq drop
            /\ allowed = last.allowed

\* C6 witness: /a/b/c was re-dropped under an allowed ancestor while /a/b was
\* already marked, and nothing was added.
C6_Witness ==
    /\ last.op = "add_to_drop"
    /\ last.path = pABC
    /\ pAB \in last.before
    /\ pABC \notin last.before
    /\ pA \in allowed
    /\ drop = last.before

\* C7 (as claimed): starting from an empty drop set, the drop set never holds
\* two entries of which one is a strict path-ancestor of the other.
C7_NoNestedEntries ==
    drop0 = {} => \A p \in drop : \A q \in drop : ~StrictAncestor(p, q)

\* C7 (amended): a path is added to the drop set only when none of its strict
\* ancestors is an entry of the drop set at that time.
C7_NoCoveredEntryAdded ==
    [][ \A p \in drop' \ drop : \A q \in drop : ~StrictAncestor(q, p) ]_vars

\* C7 witness: a descendant of an entry was dropped and got no entry, and a
\* path not covered by any entry did get one.
C7_Witness ==
    /\ last.op = "add_to_drop"
    /\ \E q \in last.before : StrictAncestor(q, last.path)
    /\ Ancestors(last.path) \cap allowed # {}
    /\ last.path \notin drop
    /\ \E p \in drop \ drop0 : TRUE

\* C8: for an absolute path with non-empty components all_parents_for returns
\* exactly its proper ancestor paths: never the empty prefix, never the path
\* itself, n - 1 of them for n components.
C8_AllParents ==
    (fn_out.done /\ WellFormedPath(fn_in)) =>
        /\ fn_out.val = Ancestors(fn_in)
        /\ <<>> \notin fn_out.val
        /\ fn_in \notin fn_out.val
        /\ Cardinality(fn_out.val) = NumComponents(fn_in) - 1
        /\ \A p \in fn_out.val : StrictAncestor(p, fn_in)

\* C8 witness: a path of three components gave its two ancestors.
C8_Witness ==
    /\ fn_out.done
    /\ fn_in = <<"/", "a", "/", " ", "/", "a">>
    /\ fn_out.val = { <<"/", "a">>, <<"/", "a", "/", " ">> }

\* C9 (as claimed): a run over N files in which steps synthesize M items ends
\* with total = N + M and processed = N + M.  The code does not satisfy this.
C9_FinalCounts ==
    RunDone =>
        /\ processed = Len(content_files) + synth
        /\ total = Len(content_files) + synth

\* C10 (as claimed): the processed count shown by the progress indicator
\* never exceeds the total shown.  The code does not satisfy this.
C10_ProgressWithinTotal == progress.processed <= progress.total

\* C11 (as claimed): after the run the PipelineState passed to pipeline holds
\* the counts the orchestrator used: its processed field is the number of
\* results handled and its total field the total the orchestrator ended
\* with.  The code does not satisfy this: the two fields are copied into
\* locals and never written back.
C11_RunStateCounts ==
    RunDone => (state.processed = processed /\ state.total = total)

\* C12: in the exported metadata the ordering and local_roles maps hold
\* exactly the entries of the in-memory maps whose key is a key of uid_remap
\* (state.uids), with the values unchanged.
C12_ExportedFilteredByRemap ==
    pc = "done" =>
        /\ dst.metadata.written
        /\ \A name \in { "ordering", "local_roles" } :
              LET exported == dst.metadata.data[name]
                  memory == metadata[name]
              IN  /\ DOMAIN exported = DOMAIN memory \cap DOMAIN state.uids
                  /\ \A k \in DOMAIN exported : exported[k] = memory[k]

\* C12 witness: the remap has the keys u1 and u4, the in-memory ordering has
\* also u3 and u9, and the exported ordering has u1 and u4 only.
C12_Witness ==
    /\ pc = "done"
    /\ DOMAIN state.uids = { "u1", "u4" }
    /\ DOMAIN metadata.ordering = { "u1", "u3", "u4", "u9" }
    /\ DOMAIN dst.metadata.data.ordering = { "u1", "u4" }
    /\ dst.metadata.data.ordering["u4"] = 1

\* C13 (as claimed): every key of the exported ordering, local_roles and
\* default_page maps is in the seen set, also after a default-page merge.
\* The code does not satisfy this: it filters by the keys of uid_remap.
C13_ExportedKeysSeen ==
    pc = "done" =>
        \A name \in { "ordering", "local_roles", "default_page" } :
            DOMAIN dst.metadata.data[name] \subseteq state.seen

\* C14 (as claimed): every entry of relations.json comes from a source
\* relation with both ends in uid_remap and carries the two remapped ends;
\* a relation with an end outside uid_remap gives no entry.  The code does
\* not satisfy this: it writes the remapped from-end as to_uuid.
C14_RelationsRemapped ==
    pc = "done" =>
        \A i \in 1..Len(dst.relations.data) :
            \E j \in 1..Len(metadata.relations) :
                LET r == metadata.relations[j]
                IN  /\ r.from_uuid \in DOMAIN state.uids
                    /\ r.to_uuid \in DOMAIN state.uids
                    /\ dst.relations.data[i].from_uuid = state.uids[r.from_uuid]
                    /\ dst.relations.data[i].to_uuid = state.uids[r.to_uuid]

\* the UIDs of the containers the default-page step has yielded absent for:
\* those whose default page was merged since, and those still pending
DeferredContainers ==
    { metadata.fix_relations[c] : c \in DOMAIN metadata.fix_relations }
    \cup { metadata.processing_default_page[c].uid :
             c \in DOMAIN metadata.processing_default_page }

\* C15 (as claimed): when an item is written uid_remap maps its final UID to
\* itself and its _UID, if it has one, to its final UID; and no UID of a
\* dropped item is a key of uid_remap (here: of a container for which the
\* default-page step yielded absent, which the orchestrator counts as
\* dropped).
C15_RemapOnlyWritten ==
    /\ (last.op = "yield" /\ last.res.item.present) =>
          LET it == last.res.item
          IN  /\ it.uid \in DOMAIN state.uids
              /\ state.uids[it.uid] = it.uid
              /\ it.old_uid # "" =>
                    /\ it.old_uid \in DOMAIN state.uids
                    /\ state.uids[it.old_uid] = it.uid
    /\ DeferredContainers \cap DOMAIN state.uids = {}

\* C15 (amended): handling a present result adds to uid_remap exactly the
\* item's final UID, mapped to itself, and its _UID if it has one, mapped to
\* the final UID; handling an absent result leaves uid_remap unchanged.
C15_RemapFromWrittenItems ==
    [][ last'.op = "yield" =>
          LET it == last'.res.item
          IN  IF it.present
              THEN /\ DOMAIN state'.uids =
                         DOMAIN state.uids \cup { it.uid }
                           \cup (IF it.old_uid # "" THEN { it.old_uid }
                                 ELSE {})
                   /\ state'.uids[it.uid] = it.uid
                   /\ it.old_uid # "" => state'.uids[it.old_uid] = it.uid
                   /\ \A k \in DOMAIN state.uids \ { it.uid, it.old_uid } :
                         state'.uids[k] = state.uids[k]
              ELSE state'.uids = state.uids ]_vars

\* C15 witness: the page u4, merged into its container u1, has been written;
\* the container had been handled as dropped before, and its UID is now a
\* key of uid_remap.
C15_Witness ==
    /\ last.op = "yield"
    /\ last.res.item.present
    /\ last.res.item.uid = "u1"
    /\ last.res.item.old_uid = "u4"
    /\ state.uids = Put(Put(EmptyDict, "u1", "u1"), "u4", "u1")
    /\ progress.dropped = 1
    /\ "u1" \in DeferredContainers

\* C16: no key beginning with an underscore is in the data.json written for
\* an item; what is written are the item's other keys and its blob fields.
C16_NoInternalKeysWritten ==
    /\ \A u \in DOMAIN dst.data :
          \A key \in dst.data[u] : key # <<>> /\ key[1] # "_"
    /\ (last.op = "yield" /\ last.res.item.present) =>
          LET it == last.res.item
          IN  /\ it.uid \in DOMAIN dst.data
              /\ dst.data[it.uid] =
                    { key \in Keys(it) \cup Range(it.blobs) : key[1] # "_" }

\* C16 witness: a merged item carrying _UID and _blob_files_ was written,
\* with its image field and without the two internal keys.
C16_Witness ==
    /\ last.op = "yield"
    /\ last.res.item.present
    /\ kOldUID \in Keys(last.res.item)
    /\ kBlobFiles \in Keys(last.res.item)
    /\ kImage \in dst.data[last.res.item.uid]
    /\ kOldUID \notin dst.data[last.res.item.uid]

\* C17: when a step raises during the item loop the run is over at once: the
\* exception leaves _pipeline and pipeline (every invocation is gone, the run
\* has failed), the data files written so far stay as they are, nothing
\* happens after it (no item is read, handled or written), and the metadata
\* file and the relations file are not written.
C17_StepExceptionEndsRun ==
    /\ [](pc = "failed" =>
            /\ stack = <<>>
            /\ ~dst.metadata.written
            /\ ~dst.relations.written)
    /\ [][ /\ pc # "failed"
           /\ last'.op = "raise" =>
                 /\ pc' = "failed"
                 /\ dst' = dst
                 /\ UNCHANGED <<files, counters, state>> ]_vars

\* C17 witness: a step raised on the second of three files; the data file of
\* the first item is there, no metadata file and no relations file.
C17_Witness ==
    /\ pc = "failed"
    /\ last.op = "raise"
    /\ files = 2
    /\ Len(content_files) = 3
    /\ "u3" \in DOMAIN dst.data
    /\ ~dst.metadata.written

\* a configured step name that does not resolve
Unresolvable == \E i \in 1..Len(steps) : steps[i] \notin env.loadable

\* C18: when a configured step name does not resolve, or the source or the
\* destination path does not exist, the run never gets to the item loop: no
\* content file is read, no step is called, nothing is counted and nothing is
\* written to the destination.
C18_AbortBeforeItems ==
    (~env.src_exists \/ ~env.dst_exists \/ Unresolvable) =>
        /\ pc \in { "start", "checked", "prepared", "aborted" }
        /\ files = 0
        /\ stack = <<>>
        /\ last.op \in { "init", "check_paths", "run_pipeline", "pipeline" }
        /\ processed = 0
        /\ progress.processed = 0
        /\ progress.dropped = 0
        /\ state.seen = {}
        /\ state.uids = EmptyDict
        /\ DOMAIN dst.data \subseteq DOMAIN StaleDst.data
        /\ ~dst.metadata.written
        /\ ~dst.relations.written

\* C18 witness: both paths exist, the step list names a step that does not
\* resolve, and the run has aborted in pipeline before the loop.
C18_Witness ==
    /\ pc = "aborted"
    /\ last.op = "pipeline"
    /\ Unresolvable
    /\ env.src_exists
    /\ env.dst_exists
    /\ files = 0

\* C19: during the item loop no entry is removed from uid_remap, the seen
\* set, ordering, local_roles, relations (nor from the fix-relations map and
\* the blob file list); the default-page link map and the pending map lose
\* an entry only in a call of the default-page step, and then exactly the
\* entry of the item the step was called with.
C19_ContextMonotonic ==
    [][ pc = "loop" =>
          LET called == /\ last'.op = "call"
                        /\ last'.step = "process_default_page"
          IN  /\ DOMAIN state.uids \subseteq DOMAIN state'.uids
              /\ state.seen \subseteq state'.seen
              /\ metadata'.ordering = metadata.ordering
              /\ metadata'.local_roles = metadata.local_roles
              /\ metadata'.relations = metadata.relations
              /\ \A k \in DOMAIN metadata.fix_relations :
                    /\ k \in DOMAIN metadata'.fix_relations
                    /\ metadata'.fix_relations[k] = metadata.fix_relations[k]
              /\ Len(metadata.blob_files) <= Len(metadata'.blob_files)
              /\ SubSeq(metadata'.blob_files, 1, Len(metadata.blob_files))
                    = metadata.blob_files
              /\ \/ metadata'.default_page = metadata.default_page
                 \/ /\ called
                    /\ last'.pre.uid \in DOMAIN metadata.default_page
                    /\ metadata'.default_page =
                          Pop(metadata.default_page, last'.pre.uid)
              /\ \/ \A k \in DOMAIN metadata.processing_default_page :
                       /\ k \in DOMAIN metadata'.processing_default_page
                       /\ metadata'.processing_default_page[k] =
                             metadata.processing_default_page[k]
                 \/ /\ called
                    /\ last'.pre.uid
                          \in DOMAIN metadata.processing_default_page
                    /\ metadata'.processing_default_page =
                          Pop(metadata.processing_default_page,
                              last'.pre.uid) ]_vars

\* C19 witness: the link and the pending entry of /a/b have been consumed,
\* and the remap and the seen set have grown over two written items.
C19_Witness ==
    /\ pc = "loop"
    /\ metadata.default_page = EmptyDict
    /\ metadata.processing_default_page = EmptyDict
    /\ DOMAIN metadata.fix_relations = { "u4" }
    /\ state.seen = { "u1", "u3" }
    /\ DOMAIN state.uids = { "u1", "u3", "u4" }

\* the default-page links the source metadata came with
SourceLinks == FromList(env.src_metadata.defaultpages)

\* C20: a call of the default-page step that matches a pending entry removes
\* it in that call, and one that matches a link removes the link in that
\* call (and yields absent); so each link is, at any time of the loop, in
\* exactly one of three places: still in the link map, pending, or merged,
\* and nothing is matched twice.
C20_ConsumedOnce ==
    /\ [][ (last'.op = "call" /\ last'.step = "process_default_page") =>
             LET u == last'.pre.uid
             IN  IF u \in DOMAIN metadata.processing_default_page
                 THEN /\ u \notin DOMAIN metadata'.processing_default_page
                      /\ metadata'.default_page = metadata.default_page
                      /\ u \in DOMAIN metadata'.fix_relations
                 ELSE IF u \in DOMAIN metadata.default_page
                 THEN /\ u \notin DOMAIN metadata'.default_page
                      /\ metadata.default_page[u]
                            \in DOMAIN metadata'.processing_default_page
                      /\ last'.out = <<"none">>
                 ELSE metadata' = metadata ]_vars
    /\ [](pc \in { "loop", "done", "failed" } =>
            \A p \in DOMAIN SourceLinks :
                Cardinality(
                  { place \in { "link", "pending", "merged" } :
                      \/ /\ place = "link"
                         /\ p \in DOMAIN metadata.default_page
                      \/ /\ place = "pending"
                         /\ SourceLinks[p]
                               \in DOMAIN metadata.processing_default_page
                      \/ /\ place = "merged"
                         /\ SourceLinks[p]
                               \in DOMAIN metadata.fix_relations }) = 1)

\* C20 witness: the page merged into /a/b, now with the container's UID, was
\* passed to the default-page step a second time and matched nothing.
C20_Witness ==
    /\ last.op = "call"
    /\ last.step = "process_default_page"
    /\ last.k = 2
    /\ last.pre.uid = "u1"
    /\ last.pre.old_uid = "u4"
    /\ last.out = <<"same">>
    /\ "u4" \in DOMAIN metadata.fix_relations

----------------------------------------------------------------------------
(* C24 *)

\* C24: when the run has ended, the data-file list of the written metadata
\* has one entry per item written (one per present result; its entries are
\* the folders that exist in the destination), and the entries stand in the
\* order of the items' @id: no entry's @id is smaller, as a string, than
\* the @id of an entry before it.  While the run goes on, every pair kept
\* for the list belongs to a data file that was written.
C24_DataFilesByPath ==
    /\ \A i \in 1..Len(paths) : paths[i][2] \in DOMAIN dst.data
    /\ pc = "done" =>
          LET written == dst.metadata.data.data_files
          IN  /\ Len(written) = progress.processed - progress.dropped
              /\ Len(written) = Len(paths)
              /\ { written[i] : i \in 1..Len(written) } = DOMAIN dst.data
              /\ \A i \in 1..Len(written) : written[i] = paths[i][2]
              /\ \A i, j \in 1..Len(paths) :
                    i < j => ~StrLess(paths[j][1], paths[i][1])

\* C24 witness: /a/b/c was processed and written before /a/b, and the list
\* names the data file of /a/b first.
C24_Witness ==
    /\ pc = "done"
    /\ content_files = <<iABC, iAB>>
    /\ paths = << <<pAB, "u1">>, <<pABC, "u2">> >>
    /\ dst.metadata.data.data_files = <<"u1", "u2">>

----------------------------------------------------------------------------
(* C21 *)

\* C21 (as claimed): every key of the default-page pending map is the UID of
\* a container (a key of the source's default-page links) and the entry holds
\* that container's default-page child.  The code does not satisfy this.
C21_PendingByContainer ==
    \A k \in DOMAIN metadata.processing_default_page :
        /\ k \in DOMAIN SourceLinks
        /\ metadata.processing_default_page[k].uid = SourceLinks[k]

\* C21 (amended): every key of the pending map is the UID of a default page
\* and the entry holds the container that names it as its default page.  An
\* entry is created only by a call of the default-page step on that
\* container, which yields absent for it (the container is withheld), and
\* an entry is removed only by a call of the step on the item whose UID is
\* the key.
C21_PendingByDefaultPage ==
    /\ [](\A k \in DOMAIN metadata.processing_default_page :
            LET held == metadata.processing_default_page[k]
            IN  /\ held.uid \in DOMAIN SourceLinks
                /\ SourceLinks[held.uid] = k)
    /\ [][ pc = "loop" =>
           /\ \A k \in DOMAIN metadata'.processing_default_page
                       \ DOMAIN metadata.processing_default_page :
                 /\ last'.op = "call"
                 /\ last'.step = "process_default_page"
                 /\ last'.pre = metadata'.processing_default_page[k]
                 /\ last'.out = <<"none">>
           /\ \A k \in DOMAIN metadata.processing_default_page
                       \ DOMAIN metadata'.processing_default_page :
                 /\ last'.op = "call"
                 /\ last'.step = "process_default_page"
                 /\ last'.pre.uid = k ]_vars

\* C21 witness: the pending map held the container /a/b under the UID of its
\* default page /a/b/i, and the call of the step on /a/b/i has just removed it.
C21_Witness ==
    /\ last.op = "call"
    /\ last.step = "process_default_page"
    /\ last.pre = iABi
    /\ last.out = <<>>
    /\ metadata.processing_default_page = EmptyDict
    /\ metadata.fix_relations = Put(EmptyDict, "u4", "u1")

----------------------------------------------------------------------------
(* C23 *)

\* C23: one item at a time.  The live _pipeline invocations all belong to
\* the content file read last: the outermost was entered for it and every
\* other one was entered by the one below it, which is suspended in its
\* step until the nested one ends; so only the innermost invocation acts.
\* Every result handled so far was counted and, if present, written in the
\* same step of the loop.  The next content file is read only when no
\* invocation is live, and by then at least one result per file read was
\* handled; every call, skip, result and yield is about the file read last.
C23_OneItemAtATime ==
    /\ [](/\ stack # <<>> =>
               /\ files >= 1
               /\ stack[1].src_uid = content_files[files].uid
               /\ \A i \in 1..(Len(stack) - 1) : stack[i].running
          /\ Len(paths) = progress.processed - progress.dropped)
    /\ [][ /\ last'.op = "read" =>
                /\ stack = <<>>
                /\ processed >= files
                /\ Len(stack') = 1
           /\ last'.op \in { "call", "skip", "result", "recurse", "yield" } =>
                /\ files' = files
                /\ stack[1].src_uid = content_files[files].uid ]_vars

\* C23 witness: the second file is read after the first one gave two
\* results, a synthesized item and the item itself, both counted and written.
C23_Witness ==
    /\ last.op = "read"
    /\ files = 2
    /\ processed = 2
    /\ Len(paths) = 2
    /\ synth = 1

----------------------------------------------------------------------------
(* utils/files.py: _sort_content_files on its own.  A file is named by the *)
(* characters before ".json".                                              *)

\* line 137: the width of the "07d" format
PadWidth == 7

Digits == <<"0", "1", "2", "3", "4", "5", "6", "7", "8", "9">>

RECURSIVE int(_)
\* int(name) for a string of decimal digits
int(name) ==
    IF name = <<>> THEN 0
    ELSE 10 * int(SubSeq(name, 1, Len(name) - 1))
           + (IndexOf(Digits, name[Len(name)]) - 1)

RECURSIVE str(_)
\* the decimal digits of a non-negative int
str(n) ==
    IF n < 10 THEN <<Digits[n + 1]>>
    ELSE str(n \div 10) \o <<Digits[(n % 10) + 1]>>

RECURSIVE zfill(_, _)
\* the digits padded with zeros on the left up to the width, never cut
zfill(digits, width) ==
    IF Len(digits) >= width THEN digits
    ELSE zfill(<<"0">> \o digits, width)

\* lines 135-137: key(filepath)
key(name) == zfill(str(int(name)), PadWidth)

RECURSIVE insort(_, _)
\* x goes before the first element whose key is greater than its own
insort(seq, x) ==
    IF seq = <<>> THEN <<x>>
    ELSE IF StrLess(key(x), key(Head(seq))) THEN <<x>> \o seq
    ELSE <<Head(seq)>> \o insort(Tail(seq), x)

RECURSIVE _sort_content_files(_)
\* line 139: sorted(content, key=...), stable
_sort_content_files(content) ==
    IF content = <<>> THEN <<>>
    ELSE insort(_sort_content_files(SubSeq(content, 1, Len(content) - 1)),
                content[Len(content)])

\* the names of the content files of a source directory
FileNames ==
    { <<"5">>, <<"1", "2">>, <<"0", "3">>, <<"1", "2", "3">>,
      <<"9", "9", "9", "9", "9", "9", "9">>,
      <<"1", "0", "0", "0", "0", "0", "0", "0">> }

\* the orders in which glob may list up to three of them
Listings ==
    { l \in UNION { [1..n -> FileNames] : n \in 1..3 } :
        \A i, j \in 1..Len(l) : i # j => l[i] # l[j] }

InitSort ==
    /\ NoRun
    /\ NoIncr
    /\ allowed = {}
    /\ drop = {}
    /\ drop0 = {}
    /\ last = [op |-> "init"]
    /\ fn_in \in Listings
    /\ fn_out = NoFn

CallSort ==
    /\ ~fn_out.done
    /\ fn_out' = [done |-> TRUE, val |-> _sort_content_files(fn_in)]
    /\ UNCHANGED <<run, incr, last, fn_in>>

NextSort == CallSort

SpecSort == InitSort /\ [][NextSort]_vars

\* C25 (as claimed): in the list _sort_content_files returns, a file whose
\* name is the smaller integer stands before a file whose name is the larger
\* one, whatever the numbers of digits.  The code does not satisfy this.
C25_NumericOrder ==
    fn_out.done =>
        \A i, j \in 1..Len(fn_out.val) :
            int(fn_out.val[i]) < int(fn_out.val[j]) => i < j

----------------------------------------------------------------------------
(* utils/__init__.py: load_step, load_all_steps and check_steps on their   *)
(* own.  A name is a string; `st` is what a call can change: the cache of  *)
(* functools.cache and the number of import_module calls made so far.      *)

DOT == "."

\* the importable modules and their attributes ("" is None)
Modules ==
    Put(EmptyDict, <<"m">>,
        Put(Put(Put(EmptyDict, <<"f">>, "step_f"), <<"g">>, "step_g"),
            <<"z">>, ""))

\* the configured names: two steps that resolve, an attribute that is None,
\* a missing attribute, a missing module, no dot, nothing before the dot,
\* nothing after the dot
StepNames ==
    { <<"m", ".", "f">>, <<"m", ".", "g">>, <<"m", ".", "z">>,
      <<"m", ".", "x">>, <<"x", ".", "f">>, <<"m", "f">>, <<".", "f">>,
      <<"m", ".">> }

\* the lists of names a configuration may hold
NameLists == UNION { [1..n -> StepNames] : n \in 0..2 }

\* the number of calls the specification follows
MaxCalls == 3

\* the index of the last "." of the name, 0 when there is none
LastDot(name) ==
    IF \E i \in 1..Len(name) : name[i] = DOT
    THEN CHOOSE i \in 1..Len(name) :
            name[i] = DOT /\ \A j \in (i + 1)..Len(name) : name[j] # DOT
    ELSE 0

\* name.rsplit(".", 1)
rsplit(name) ==
    IF LastDot(name) = 0 THEN <<name>>
    ELSE <<SubSeq(name, 1, LastDot(name) - 1),
           SubSeq(name, LastDot(name) + 1, Len(name))>>

\* importlib.import_module(mod_name): the exception it raises, "" for none
import_module(mod_name) ==
    IF mod_name = <<>> THEN "ValueError"
    ELSE IF Head(mod_name) = DOT THEN "TypeError"
    ELSE IF mod_name \in DOMAIN Modules THEN ""
    ELSE "ModuleNotFoundError"

\* lines 34-42, the body of load_step: the exception that leaves it ("" for
\* none), the callable it returns, and whether import_module was called
load_step_body(name) ==
    LET parts == rsplit(name)
    IN  IF Len(parts) # 2
        THEN [exc |-> "ValueError", func |-> "", imported |-> 0]
        ELSE LET mod_name == parts[1]
                 func_name == parts[2]
                 raised == import_module(mod_name)
             IN  IF raised = "ModuleNotFoundError"
                 THEN [exc |-> "RuntimeError", func |-> "", imported |-> 1]
                 ELSE IF raised # ""
                 THEN [exc |-> raised, func |-> "", imported |-> 1]
                 ELSE LET mod == Modules[mod_name]
                          func == IF func_name \in DOMAIN mod
                                  THEN mod[func_name] ELSE ""
                      IN  IF func = ""
                          THEN [exc |-> "RuntimeError", func |-> "",
                                imported |-> 1]
                          ELSE [exc |-> "", func |-> func, imported |-> 1]

\* lines 17-42: load_step under functools.cache, which keeps what the body
\* returned and nothing of a call that raised
load_step(name, st) ==
    IF name \in DOMAIN st.cache
    THEN [exc |-> "", val |-> st.cache[name], st |-> st]
    ELSE LET r == load_step_body(name)
         IN  [exc |-> r.exc, val |-> r.func,
              st |-> [cache |-> IF r.exc = "" THEN Put(st.cache, name, r.func)
                                ELSE st.cache,
                      imports |-> st.imports + r.imported]]

RECURSIVE load_all_steps_from(_, _)
\* lines 45-60: the tuple of callables, or the exception of the first name
\* that does not load
load_all_steps_from(names, st) ==
    IF names = <<>> THEN [exc |-> "", val |-> <<>>, st |-> st]
    ELSE LET r == load_step(Head(names), st)
         IN  IF r.exc # "" THEN [exc |-> r.exc, val |-> <<>>, st |-> r.st]
             ELSE LET rest == load_all_steps_from(Tail(names), r.st)
                  IN  [rest EXCEPT !.val = <<r.val>> \o @]

RECURSIVE check_steps(_, _)
\* lines 63-83: only RuntimeError is caught
check_steps(names, st) ==
    IF names = <<>> THEN [exc |-> "", val |-> <<>>, st |-> st]
    ELSE LET r == load_step(Head(names), st)
         IN  IF r.exc \notin { "", "RuntimeError" }
             THEN [exc |-> r.exc, val |-> <<>>, st |-> r.st]
             ELSE LET rest == check_steps(Tail(names), r.st)
                  IN  [rest EXCEPT
                         !.val = << <<Head(names), r.exc = "">> >> \o @]

InitSteps ==
    /\ NoRun
    /\ NoIncr
    /\ allowed = {}
    /\ drop = {}
    /\ drop0 = {}
    /\ last = [op |-> "init"]
    /\ fn_in \in NameLists
    /\ fn_out = [calls |-> 0, cache |-> EmptyDict, imports |-> 0]

\* the state of the interpreter that the three functions share
Loaded == [cache |-> fn_out.cache, imports |-> fn_out.imports]

Called(r) ==
    fn_out' = [calls |-> fn_out.calls + 1, cache |-> r.st.cache,
               imports |-> r.st.imports]

CallLoadStep ==
    /\ fn_out.calls < MaxCalls
    /\ \E name \in StepNames :
        LET r == load_step(name, Loaded)
        IN  /\ Called(r)
            /\ last' = [op |-> "load_step", name |-> name, exc |-> r.exc,
                        val |-> r.val, before |-> Loaded]
    /\ UNCHANGED <<run, incr, fn_in>>

CallLoadAllSteps ==
    /\ fn_out.calls < MaxCalls
    /\ LET r == load_all_steps_from(fn_in, Loaded)
       IN  /\ Called(r)
           /\ last' = [op |-> "load_all_steps", exc |-> r.exc, val |-> r.val,
                       before |-> Loaded]
    /\ UNCHANGED <<run, incr, fn_in>>

CallCheckSteps ==
    /\ fn_out.calls < MaxCalls
    /\ LET r == check_steps(fn_in, Loaded)
       IN  /\ Called(r)
           /\ last' = [op |-> "check_steps", exc |-> r.exc, val |-> r.val,
                       before |-> Loaded]
    /\ UNCHANGED <<run, incr, fn_in>>

NextSteps == CallLoadStep \/ CallLoadAllSteps \/ CallCheckSteps

SpecSteps == InitSteps /\ [][NextSteps]_vars

\* the name resolves: its module can be imported and has the attribute
Resolves(name) ==
    /\ Len(rsplit(name)) = 2
    /\ rsplit(name)[1] \in DOMAIN Modules
    /\ rsplit(name)[2] \in DOMAIN Modules[rsplit(name)[1]]
    /\ Modules[rsplit(name)[1]][rsplit(name)[2]] # ""

\* C26 (as claimed): check_steps never raises, and returns one (name, ok)
\* pair per name, in the order of the names, with ok true exactly when the
\* name resolves.  The code does not satisfy this.
C26_CheckStepsNeverRaises ==
    last.op = "check_steps" =>
        /\ last.exc = ""
        /\ Len(last.val) = Len(fn_in)
        /\ \A i \in 1..Len(fn_in) :
              last.val[i] = <<fn_in[i], Resolves(fn_in[i])>>

\* the module named by the name and the attribute named by it both exist
Exists(name) ==
    LET parts == rsplit(name)
        mod_name == IF Len(parts) = 2 THEN parts[1] ELSE <<>>
        func_name == parts[Len(parts)]
    IN  /\ mod_name \in DOMAIN Modules
        /\ func_name \in DOMAIN Modules[mod_name]
        /\ Modules[mod_name][func_name] # ""

\* C27 (as claimed): load_step fails with the step-not-found error
\* (RuntimeError) when the module or the attribute the name names does not
\* exist, and returns the callable otherwise; a call for a name resolved
\* before returns the same callable and imports nothing; load_all_steps,
\* when every name resolves, returns one callable per name in the order of
\* the names.  The code does not satisfy the first part.
C27_LoadStepResolves ==
    /\ last.op = "load_step" =>
          /\ IF Exists(last.name)
             THEN /\ last.exc = ""
                  /\ last.val = Modules[rsplit(last.name)[1]]
                                       [rsplit(last.name)[2]]
             ELSE last.exc = "RuntimeError"
          /\ last.name \in DOMAIN last.before.cache =>
                /\ last.val = last.before.cache[last.name]
                /\ fn_out.imports = last.before.imports
    /\ (last.op = "load_all_steps" /\ \A i \in 1..Len(fn_in) : Exists(fn_in[i]))
          => /\ last.exc = ""
             /\ Len(last.val) = Len(fn_in)
             /\ \A i \in 1..Len(fn_in) :
                   last.val[i] = Modules[rsplit(fn_in[i])[1]]
                                        [rsplit(fn_in[i])[2]]

----------------------------------------------------------------------------
(* steps/ids.py: fix_short_id and process_ids on their own.  The item is   *)
(* the two keys the step writes, "@id" and "id"; the cleanup mapping is    *)
(* the list of the (src, rpl) pairs of pb_config.paths.cleanup.             *)

\* the longest @id of an input item
MaxIdLen == 4

\* how often process_ids is applied to what it yielded
MaxApply == 2

IdChars == { "/", "_", " ", "-", "x", "%", "2", "0" }

\* longer @id values: a quoted space between two characters, a quoted
\* space in a folder name, an id with a separator inside
IdSamples ==
    { <<"x", "%", "2", "0", "x">>,
      <<"/", "x", "%", "2", "0", "x", "/", "x">>,
      <<"/", "_", "x", " ", "x">> }

Ids == UNION { [1..n -> IdChars] : n \in 0..MaxIdLen } \cup IdSamples

\* the characters the regular expression of PATTERNS strips (line 38)
Separators == { " ", "_", "-" }

\* the %XX escapes that can be written with the characters of IdChars
Escapes ==
    Put(Put(Put(Put(EmptyDict, <<"0", "0">>, "NUL"), <<"0", "2">>, "STX"),
            <<"2", "0">>, " "), <<"2", "2">>, "QUOTE")

RECURSIVE unquote(_)
\* urllib.parse.unquote: one pass, an escape that is not hexadecimal stays
unquote(s) ==
    IF s = <<>> THEN <<>>
    ELSE IF s[1] = "%" /\ Len(s) >= 3 /\ SubSeq(s, 2, 3) \in DOMAIN Escapes
    THEN <<Escapes[SubSeq(s, 2, 3)]>> \o unquote(SubSeq(s, 4, Len(s)))
    ELSE <<s[1]>> \o unquote(Tail(s))

\* src in s, for a src that is not empty
Contains(s, src) ==
    \E i \in 1..(Len(s) - Len(src) + 1) : SubSeq(s, i, i + Len(src) - 1) = src

RECURSIVE replace(_, _, _)
\* s.replace(src, rpl): every occurrence, from the left, none overlapping
replace(s, src, rpl) ==
    IF Len(s) < Len(src) THEN s
    ELSE IF SubSeq(s, 1, Len(src)) = src
    THEN rpl \o replace(SubSeq(s, Len(src) + 1, Len(s)), src, rpl)
    ELSE <<s[1]>> \o replace(Tail(s), src, rpl)

RECURSIVE lstrip_seps(_)
lstrip_seps(s) ==
    IF s # <<>> /\ s[1] \in Separators THEN lstrip_seps(Tail(s)) ELSE s

RECURSIVE rstrip_seps(_)
rstrip_seps(s) ==
    IF s # <<>> /\ s[Len(s)] \in Separators
    THEN rstrip_seps(SubSeq(s, 1, Len(s) - 1)) ELSE s

\* lines 37-39: the group "path" when the pattern matches: separators, then
\* characters that are no separators, then separators
pattern_match(id_) ==
    LET core == rstrip_seps(lstrip_seps(id_))
    IN  [matched |-> \A i \in 1..Len(core) : core[i] \notin Separators,
         path    |-> core]

\* fix_short_id without lines 54-55: nothing is stripped
fix_short_id_unstripped(id_) ==
    IF \E i \in 1..Len(id_) : id_[i] = " "
    THEN replace(id_, <<" ">>, <<"_">>)
    ELSE id_

\* lines 42-59
fix_short_id(id_) ==
    LET m == pattern_match(id_)
        id1 == IF m.matched THEN m.path ELSE id_
    IN  IF \E i \in 1..Len(id1) : id1[i] = " "
        THEN replace(id1, <<" ">>, <<"_">>)
        ELSE id1

RECURSIVE apply_cleanup(_, _)
\* lines 104-106
apply_cleanup(path, cleanup_paths) ==
    IF cleanup_paths = <<>> THEN path
    ELSE LET src == Head(cleanup_paths)[1]
             rpl == Head(cleanup_paths)[2]
         IN  apply_cleanup(IF Contains(path, src) THEN replace(path, src, rpl)
                           ELSE path,
                           Tail(cleanup_paths))

\* lines 87-114: the list of the items the step yields
process_ids(item, cleanup_paths) ==
    LET path == apply_cleanup(unquote(replace(item.at_id, <<" ">>, <<"_">>)),
                              cleanup_paths)
        parts == Split(path)
        last_part == fix_short_id(parts[Len(parts)])
        fixed == [parts EXCEPT ![Len(parts)] = last_part]
    IN  << [item EXCEPT !.at_id = Join(fixed), !.id = last_part] >>

\* pb_config.paths.cleanup: nothing, a prefix that is removed, a separator
\* that is removed after a slash, a folder that moves below itself
Cleanups ==
    { <<>>,
      << << <<"/", "x">>, <<>> >> >>,
      << << <<"/", "_">>, <<"/">> >> >>,
      << << <<"/", "x">>, <<"/", "x", "/", "x">> >> >> }

InitIds ==
    /\ NoRun
    /\ NoIncr
    /\ allowed = {}
    /\ drop = {}
    /\ drop0 = {}
    /\ last = [op |-> "init"]
    /\ \E at_id \in Ids, cleanup \in Cleanups :
          LET parts == Split(at_id)
          IN  fn_in = [item |-> [at_id |-> at_id, id |-> parts[Len(parts)]],
                       cleanup |-> cleanup]
    /\ fn_out = [calls |-> 0, out |-> <<>>, first |-> <<>>]

\* process_ids is called on the input item, then on the item it yielded
CallProcessIds ==
    /\ fn_out.calls < MaxApply
    /\ fn_out.calls > 0 => fn_out.out # <<>>
    /\ LET item == IF fn_out.calls = 0 THEN fn_in.item ELSE fn_out.out[1]
           out == process_ids(item, fn_in.cleanup)
       IN  fn_out' = [calls |-> fn_out.calls + 1, out |-> out,
                      first |-> IF fn_out.calls = 0 THEN out ELSE fn_out.first]
    /\ UNCHANGED <<run, incr, last, fn_in>>

NextIds == CallProcessIds

SpecIds == InitIds /\ [][NextIds]_vars

\* C28 (as claimed): process_ids applied to the item it yielded yields an
\* item with the same @id and the same id.  The code does not satisfy this.
C28_NormalizationIdempotent ==
    fn_out.calls >= 2 => fn_out.out = fn_out.first

\* the last "/"-separated segment of a path
LastSegment(path) == Split(path)[Len(Split(path))]

NoSeparator(s) == \A i \in 1..Len(s) : s[i] \notin Separators

----------------------------------------------------------------------------
(* utils/default_page.py: _merge_items on its own, on the dicts themselves *)

kTitle == <<"t", "i", "t", "l", "e">>
kText  == <<"t", "e", "x", "t">>

\* dict.get(k, default)
Get(d, k, default) == IF k \in DOMAIN d THEN d[k] ELSE default

\* d.update(other)
Update(d, other) ==
    [k \in DOMAIN d \cup DOMAIN other |->
        IF k \in DOMAIN other THEN other[k] ELSE d[k]]

\* lines 4-14
_merge_items(parent_item, item, keys) ==
    LET filtered == Restrict(parent_item, keys)
        item1 == Put(Pop(item, kUID), kOldUID, item[kUID])
        current_title == Get(item1, kNavTitle, Get(item1, kTitle, ""))
        item2 == Put(item1, kNavTitle, Get(parent_item, kTitle, current_title))
    IN  Update(item2, filtered)

\* the container: with or without a title and a nav_title
ParentItems ==
    { Restrict(Put(Put(Put(Put(EmptyDict, kAtId, "/a/b"), kUID, "u1"),
                       kTitle, "Folder"), kNavTitle, "Nav"),
               { kAtId, kUID } \cup opt) :
        opt \in SUBSET { kTitle, kNavTitle } }

\* the default page: with or without a title and a nav_title
PageItems ==
    { Restrict(Put(Put(Put(Put(Put(EmptyDict, kAtId, "/a/b/i"), kUID, "u4"),
                           kTitle, "Page"), kNavTitle, "Short"),
                   kText, "body"),
               { kAtId, kUID, kText } \cup opt) :
        opt \in SUBSET { kTitle, kNavTitle } }

\* pb_config.default_page.keys_from_parent; the default is the empty list
KeysFromParent == SUBSET { kAtId, kUID, kTitle, kNavTitle }

InitMerge ==
    /\ NoRun
    /\ NoIncr
    /\ allowed = {}
    /\ drop = {}
    /\ drop0 = {}
    /\ last = [op |-> "init"]
    /\ fn_in \in [parent_item : ParentItems, item : PageItems,
                  keys : KeysFromParent]
    /\ fn_out = NoFn

CallMergeItems ==
    /\ ~fn_out.done
    /\ fn_out' = [done |-> TRUE,
                  val |-> _merge_items(fn_in.parent_item, fn_in.item,
                                       fn_in.keys)]
    /\ UNCHANGED <<run, incr, last, fn_in>>

NextMerge == CallMergeItems

SpecMerge == InitMerge /\ [][NextMerge]_vars

\* C29 (as claimed): in the dict _merge_items returns, _UID is the UID the
\* item came with; every key of keys_from_parent that the parent has holds
\* the parent's value; nav_title holds the parent's title (when the parent
\* has one and nav_title is not itself taken from the parent); and every
\* other key of the item holds the item's own value.  The code does not
\* satisfy the last part.
C29_MergedItem ==
    fn_out.done =>
        LET parent_item == fn_in.parent_item
            item == fn_in.item
            taken == fn_in.keys \cap DOMAIN parent_item
            result == fn_out.val
        IN  /\ kOldUID \in DOMAIN result
            /\ result[kOldUID] = item[kUID]
            /\ \A k \in taken : k \in DOMAIN result /\ result[k] = parent_item[k]
            /\ (kTitle \in DOMAIN parent_item /\ kNavTitle \notin taken)
                  => result[kNavTitle] = parent_item[kTitle]
            /\ \A k \in DOMAIN item \ (taken \cup { kNavTitle, kOldUID }) :
                  k \in DOMAIN result /\ result[k] = item[k]

----------------------------------------------------------------------------
(* The item loop with a step that synthesizes from every item it is given, *)
(* next to steps that synthesize at most MaxNew items in a run.            *)

FanStepLists ==
    { <<"step_fan">>, <<"step_a">>, <<"step_a", "step_b">> }

FanRuns == { <<iAB>>, <<iAB, iABx>> }

InitFan ==
    /\ allowed = {}
    /\ drop = {}
    /\ drop0 = drop
    /\ do_not_add_drop = {}
    /\ steps \in FanStepLists
    /\ content_files \in FanRuns
    /\ files = 0
    /\ stack = <<>>
    /\ total = Len(content_files)
    /\ processed = 0
    /\ progress = [processed |-> 0, total |-> Len(content_files), dropped |-> 0]
    /\ synth = 0
    /\ paths = <<>>
    /\ src_item = NoSrcItem
    /\ NoIncr
    /\ marked = {}
    /\ last = [op |-> "init"]
    /\ fn_in = <<>>
    /\ fn_out = NoFn
    /\ pc = "loop"
    /\ env = [src_exists |-> TRUE, dst_exists |-> TRUE, loadable |-> AllSteps,
              clean_up |-> FALSE, keep |-> FALSE,
              src_metadata |-> NoSrcMetadata]
    /\ metadata = initialize_metadata(NoSrcMetadata)
    /\ state = _create_state(Len(content_files))
    /\ dst = EmptyDst

NextFan ==
    ReadFile \/ SkipStep \/ StartStep \/ StepRaises \/ NextResult
        \/ RecursionError \/ Yield \/ Finish

SpecFan == InitFan /\ [][NextFan]_vars

\* no step of the list synthesizes from the items that were synthesized
\* without end
BoundedSynthesis == \A i \in 1..Len(steps) : steps[i] # "step_fan"

\* C22 (as claimed): whatever the step list, as long as every call of a step
\* yields finitely many results, the invocations of _pipeline end by
\* themselves: the run is not ended by the nesting of invocations.  The
\* code does not satisfy this for a step that synthesizes from every item.
C22_EveryStepListTerminates ==
    pc = "failed" => last.op = "raise"

RECURSIVE SumFrames(_)
\* what the live invocations have still to do: three units for each step
\* not yet reached, one for each result still to come from the running
\* step, one for the final yield
SumFrames(stack_) ==
    IF stack_ = <<>> THEN 0
    ELSE LET f == Head(stack_)
         IN  (IF f.running
              THEN 3 * (Len(steps) - f.k) + Len(f.pend) + 1
              ELSE 3 * (Len(steps) + 1 - f.k) + 1)
             + SumFrames(Tail(stack_))

\* a number that bounds the steps the run has still to take
Variant ==
    (3 * Len(steps) + 2)
        * ((Len(content_files) - files) + (MaxNew - synth))
    + SumFrames(stack)
    + (IF pc = "loop" THEN 1 ELSE 0)

\* the engine can take a step: a file can be read or the run finished, or
\* the innermost invocation can skip or call a step, take the next result
\* of the running step, or yield
CanStep ==
    /\ pc = "loop"
    /\ \/ stack = <<>> /\ files <= Len(content_files)
       \/ /\ stack # <<>>
          /\ \/ ~Top.running /\ Top.k <= Len(steps) + 1
             \/ Top.running /\ Top.pend # <<>> /\ Top.k <= Len(steps)

\* C22 (amended): when the steps synthesize only finitely many items in a
\* run, the run comes to its end: a natural number that bounds the work
\* left gets smaller with every step of the engine, and the engine can take
\* a step until the run is over.  The run is then ended by the end of the
\* files or by an exception of a step, never by the nesting of invocations,
\* and when every invocation has ended the results number one per
\* invocation: one per content file read and one per synthesized item.
C22_BoundedFanOutTerminates ==
    /\ [](BoundedSynthesis =>
            /\ Variant \in Nat
            /\ pc \in { "done", "failed" } \/ CanStep
            /\ pc = "failed" => last.op = "raise"
            /\ processed <= files + synth
            /\ (stack = <<>> /\ pc # "failed") => processed = files + synth)
    /\ [][BoundedSynthesis => Variant' < Variant]_vars

\* C22 witness: a run of two files has ended in which a step synthesized an
\* item that went through the step list from the first step: three results.
C22_Witness ==
    /\ BoundedSynthesis
    /\ pc = "done"
    /\ files = 2
    /\ synth = 1
    /\ processed = 3
    /\ Len(steps) = 2

----------------------------------------------------------------------------
(* The working item of an invocation after a step has synthesized an item *)

\* the dict was made by a step (NewItem), it did not come from a file
Synthesized(it) == it.present /\ \E n \in 1..Len(NewUids) : it.uid = NewUids[n]

\* C31 (as claimed): a result carrying _is_new_item never becomes the working
\* item of the enclosing invocation: between two steps the working item of
\* every invocation, when present, is the dict the invocation was called
\* with; the terminal result of an invocation is never an item synthesized
\* inside it; and no item is written twice in a run.  The code does not
\* satisfy this: `async for item in result` (line 126) binds the loop
\* variable to every result, the new ones included.
C31_NewItemNotWorkingItem ==
    /\ \A i \in 1..Len(stack) :
          (~stack[i].running /\ stack[i].item.present) => stack[i].is_root
    /\ (last.op = "yield" /\ last.own.item.present) =>
          /\ last.is_root
          /\ last.depth = 1 => ~Synthesized(last.own.item)
    /\ \A i, j \in 1..Len(paths) : i # j => paths[i][2] # paths[j][2]

----------------------------------------------------------------------------
(* A step that yields nothing *)

\* C37: when a step called on a present item yields no result, the
\* invocation goes on with the very dict it passed to the step, as the step
\* left it: the item is not treated as dropped (no drop path is marked, the
\* drop set is unchanged), nothing is yielded or handled for that step, and
\* the following step, if any, is called on that dict and not skipped.
C37_NoResultKeepsItem ==
    /\ [][ (last'.op = "call" /\ last'.out = <<>>) =>
              /\ Len(stack') = Len(stack)
              /\ Top'.item = Top'.arg
              /\ Top'.item.present
              /\ Top'.item.tags = Append(Top.item.tags, Top.k)
              /\ Top'.is_root = Top.is_root
              /\ ~Top'.running
              /\ Top'.k = Top.k + 1
              /\ Top'.nyield = Top.nyield
              /\ drop' = drop
              /\ marked' = marked
              /\ UNCHANGED <<total, processed, progress, paths, state, dst>>
         ]_vars
    /\ [][ (last.op = "call" /\ last.out = <<>> /\ last.k < Len(steps)) =>
              \/ /\ last'.op = "call"
                 /\ last'.k = last.k + 1
                 /\ last'.pre = Top.item
              \/ last'.op = "raise"
         ]_vars

\* C37 witness: process_default_page merged a default page into its
\* container without yielding, and the step after it has been called on the
\* merged dict.
C37_Witness ==
    /\ last.op = "call"
    /\ last.k = 2
    /\ last.pre.present
    /\ last.pre.old_uid = "u4"
    /\ last.pre.uid = "u1"
    /\ last.pre.tags = <<1>>
    /\ steps[1] = "process_default_page"

----------------------------------------------------------------------------
(* uid_remap (PipelineState.uids) against the seen set *)

\* C38: at every point of a run, every value of uids is a member of seen,
\* every member of seen is a key of uids, and every value of uids is the UID
\* of an item that was written to the destination.
C38_RemapWithinSeen ==
    /\ \A k \in DOMAIN state.uids : state.uids[k] \in state.seen
    /\ state.seen \subseteq DOMAIN state.uids
    /\ \A k \in DOMAIN state.uids : state.uids[k] \in DOMAIN dst.data

\* C38 witness: a merged default page was written under its container's
\* UID; its old UID is mapped to that UID, which is in the seen set.
C38_Witness ==
    /\ last.op = "yield"
    /\ "u4" \in DOMAIN state.uids
    /\ state.uids["u4"] = "u1"
    /\ "u1" \in state.seen
    /\ "u4" \notin state.seen

----------------------------------------------------------------------------
(* The path filter and the drop set *)

\* C35 (as claimed): process_paths rejects an item that the allowed set
\* admits only when a drop-set entry is the item's path or an ancestor of it
\* at a "/" boundary; /a/bc is not rejected because /a/b is in the drop set.
\* The code does not satisfy this: line 29 is path.startswith(prefix).
C35_DropRejectsOnlyDescendants ==
    (/\ last.op = "call"
     /\ last.step = "process_paths"
     /\ last.out = <<"none">>
     /\ _is_valid_path(allowed, {}, last.pre.id))
    => \E p \in drop : p = last.pre.id \/ StrictAncestor(p, last.pre.id)

----------------------------------------------------------------------------
(* The default-page merge and the order of the source files *)

\* C34 (as claimed): the container /a/b (u1) has the default page /a/b/i
\* (u4); when both are among the source files, no step synthesizes an item
\* and no result of the run is absent but the deferral of the container
\* itself, the finished run has
\* written an item under the container's UID that is the page merged into
\* the container, whichever of the two was read first, and the pending map
\* is empty.  The code satisfies this only when the container is read first.
C34_ContainerMergedInAnyOrder ==
    (/\ pc = "done"
     /\ \E i \in 1..Len(steps) : steps[i] = "process_default_page"
     /\ iAB \in Range(content_files)
     /\ iABi \in Range(content_files)
     /\ progress.dropped <= 1
     /\ synth = 0)
    => /\ "u1" \in state.seen
       /\ "u1" \in DOMAIN dst.data
       /\ "u4" \in DOMAIN state.uids
       /\ state.uids["u4"] = "u1"
       /\ metadata.processing_default_page = EmptyDict

----------------------------------------------------------------------------
(* pipeline() called again in the same process, as _migrate_batch and the  *)
(* multi-site wrapper do: a new PipelineState, the same module-level       *)
(* pb_config (settings/__init__.py line 58), whose drop set _add_to_drop   *)
(* changes in place.                                                       *)

MaxRuns == 2    \* calls of pipeline() in one process

\* step lists of steps whose results depend on the item, the metadata and
\* pb_config only
AgainStepLists ==
    { <<"process_paths">>,
      <<"process_default_page", "process_paths">>,
      <<"process_paths", "process_default_page">> }

\* what a finished run exported and dropped
RunSummary == [exported |-> state.seen, dropped |-> progress.dropped]

InitAgain ==
    /\ allowed \in { {}, {pA} }
    /\ drop = {}
    /\ drop0 = drop
    /\ do_not_add_drop \in { {}, {"process_default_page"} }
    /\ steps \in AgainStepLists
    /\ content_files \in MetaRuns
    /\ files = 0
    /\ stack = <<>>
    /\ total = 0
    /\ processed = 0
    /\ progress = [processed |-> 0, total |-> 0, dropped |-> 0]
    /\ synth = 0
    /\ paths = <<>>
    /\ src_item = NoSrcItem
    /\ NoIncr
    /\ marked = {}
    /\ last = [op |-> "init"]
    /\ fn_in = <<>>
    /\ fn_out = NoFn
    /\ pc = "start"
    /\ \E clean_up \in BOOLEAN :
          env = [src_exists |-> TRUE, dst_exists |-> TRUE,
                 loadable |-> AllSteps, clean_up |-> clean_up,
                 keep |-> FALSE, src_metadata |-> SrcMetadata]
    /\ dst = EmptyDst
    /\ metadata = initialize_metadata(NoSrcMetadata)
    /\ state = _create_state(0)

\* the wrapper calls pipeline() again over the same source files: a new
\* PipelineState and progress (_migrate_batch lines 243-249), new locals in
\* pipeline(); pb_config and the destination are what the run before left.
\* fn_in keeps the summaries of the finished runs (observation).
RunAgain ==
    /\ pc = "done"
    /\ Len(fn_in) + 1 < MaxRuns
    /\ fn_in' = Append(fn_in, RunSummary)
    /\ state' = _create_state(Len(content_files))
    /\ progress' = [processed |-> 0, total |-> Len(content_files),
                    dropped |-> 0]
    /\ files' = 0
    /\ paths' = <<>>
    /\ synth' = 0
    /\ pc' = "prepared"
    /\ last' = [op |-> "run_again"]
    /\ UNCHANGED incr
    /\ UNCHANGED <<src_item, config, total, processed, drop, stack, marked, fn_out, env,
                   metadata, dst>>

NextAgain ==
    CheckPaths \/ RunPipeline \/ StartPipeline \/ ReadFile \/ SkipStep
        \/ StartStep \/ NextResult \/ Yield \/ Finish \/ RunAgain

SpecAgain == InitAgain /\ [][NextAgain]_vars

\* C36 (as claimed): a run of pipeline() over the same source files and
\* configuration exports the same items and drops as many as every run
\* before it in the same process.  The code does not satisfy this: the
\* entries _add_to_drop made in one run are still in pb_config in the next.
C36_RunsIndependent ==
    pc = "done" => \A i \in 1..Len(fn_in) : RunSummary = fn_in[i]

----------------------------------------------------------------------------
(* The audit log (PipelineState.path_transforms) and the counters *)

\* the row of the result handled last
LastRow == state.path_transforms[Len(state.path_transforms)]

\* C32 (as claimed): the row of a result that is not synthesized has the
\* UID, the type and the review state of the source file in src_uid,
\* src_type and src_state, also after synthesized results of the same file;
\* only rows of synthesized results have "--" there.  The code does not
\* satisfy this: lines 224-226 blank the one src_item dict of the file, and
\* nothing restores it before the next file is read.
C32_SourceColumnsOfOwnFile ==
    last.op = "yield" =>
        LET raw_item == content_files[files]
        IN  /\ ~last.res.is_new =>
                  /\ LastRow.src_uid = raw_item.uid
                  /\ LastRow.src_type = raw_item.type
                  /\ LastRow.src_state = StateOf(raw_item)
            /\ (\/ LastRow.src_uid = "--"
                \/ LastRow.src_type = "--") => last.res.is_new


RECURSIVE SumValues(_)
\* sum(d.values())
SumValues(d) ==
    IF DOMAIN d = {} THEN 0
    ELSE LET k == CHOOSE x \in DOMAIN d : TRUE
         IN  d[k] + SumValues(Pop(d, k))

\* d[k] of a defaultdict(int), without creating the key
Count(d, k) == IF k \in DOMAIN d THEN d[k] ELSE 0

\* C33: after each result has been handled the audit log has one row per
\* result handled so far, and rows = processed = sum of the exported counts
\* + sum of the dropped counts; handling a result appends exactly one row, as
\* the last one, and increments exactly one counter by one: dropped[last_step]
\* for an absent result, whose row has every destination field "--", and
\* exported[@type of the item] for a present one, whose row has the item's
\* @id, @type and UID.
C33_OneRowOneCounter ==
    /\ [](/\ Len(state.path_transforms) = processed
          /\ processed = SumValues(state.exported) + SumValues(state.dropped))
    /\ [][ last'.op = "yield" =>
             LET res == last'.res
                 row == state'.path_transforms[Len(state'.path_transforms)]
             IN  /\ state'.path_transforms =
                        Append(state.path_transforms, row)
                 /\ processed' = processed + 1
                 /\ IF ~res.item.present
                    THEN /\ state'.exported = state.exported
                         /\ state'.dropped =
                              Put(state.dropped, res.last_step,
                                  Count(state.dropped, res.last_step) + 1)
                         /\ row.dst_path = "--"
                         /\ row.dst_type = "--"
                         /\ row.dst_uid = "--"
                         /\ row.dst_state = "--"
                         /\ row.last_step = res.last_step
                    ELSE /\ state'.dropped = state.dropped
                         /\ state'.exported =
                              Put(state.exported, res.item.type,
                                  Count(state.exported, res.item.type) + 1)
                         /\ row.dst_path = res.item.id
                         /\ row.dst_type = res.item.type
                         /\ row.dst_uid = res.item.uid
         ]_vars

\* C33 witness: three results have been handled, a dropped one, a
\* synthesized one and a source item (the last one handled).
C33_Witness ==
    /\ last.op = "yield"
    /\ processed = 3
    /\ Len(state.path_transforms) = 3
    /\ SumValues(state.dropped) = 1
    /\ Count(state.exported, "Image") = 1
    /\ SumValues(state.exported) = 2
    /\ last.res.item.present
    /\ ~last.res.is_new

----------------------------------------------------------------------------
(* The incremental wrapper: examples/incremental/incremental_migration.py  *)
(*                                                                         *)
(* source is the list get_src_files returns: content files sorted by their *)
(* numeric name, found recursively, so two directories may hold files of   *)
(* one name.  st_mtime is an input read from the file system; a write      *)
(* stamps the time the file system reports, which may repeat a value seen  *)
(* before (one tick of the timestamp clock, or a restored timestamp).      *)
(* The pipeline is called once per batch and either returns or raises.     *)
(* Files are written only between two calls of migrate_incremental.        *)

MaxTime == 2
MaxMigrations == 2
MaxEdits == 1
MaxBatch == 2

SourceNames == << <<"a", 1>>, <<"b", 1>>, <<"a", 2>> >>

FileIds == 1..Len(SourceNames)

MTimes == 1..MaxTime

new_file(n, t) == [dir |-> SourceNames[n][1], name |-> SourceNames[n][2],
                   mtime |-> t]

(* md5 of "<name>:<st_mtime>", taken as injective on that text *)
_get_item_hash(file_path) == <<file_path.name, file_path.mtime>>

_is_item_modified(file_path, migrated_items) ==
    _get_item_hash(file_path) \notin migrated_items

RECURSIVE select_from(_, _, _, _)
select_from(n, src_files, migrated_items, force_full) ==
    IF n > Len(src_files) THEN <<>>
    ELSE (IF force_full \/ _is_item_modified(src_files[n], migrated_items)
          THEN <<n>> ELSE <<>>)
         \o select_from(n + 1, src_files, migrated_items, force_full)

(* lines 150-154: the files of this call, as indices into the source list *)
new_items_of(src_files, migrated_items, force_full) ==
    select_from(1, src_files, migrated_items, force_full)

Min(a, b) == IF a < b THEN a ELSE b

batch_rest(new_items, i, batch_size) ==
    SubSeq(new_items, i + 1, Len(new_items))

(* new_items[i:i + batch_size] *)
batch_of(new_items, i, batch_size) ==
    SubSeq(new_items, i + 1, Min(i + batch_size, Len(new_items)))

hashes_of(src_files, items) ==
    {_get_item_hash(src_files[items[k]]) : k \in 1..Len(items)}

InitIncr ==
    /\ NoRun
    /\ allowed = {}
    /\ drop = {}
    /\ drop0 = {}
    /\ fn_in = <<>>
    /\ fn_out = NoFn
    /\ last = [op |-> "init"]
    /\ \E ts \in [FileIds -> MTimes] :
          source = [n \in FileIds |-> new_file(n, ts[n])]
    /\ \E bs \in 1..MaxBatch :
       \E loaded \in SUBSET {_get_item_hash(source[n]) : n \in FileIds} :
          migrator = [batch_size |-> bs,
                      migrated_items |-> loaded,
                      state_file |-> loaded,
                      running |-> FALSE,
                      force_full |-> FALSE,
                      new_items |-> <<>>,
                      i |-> 0,
                      result |-> "none",
                      invoked |-> 0,
                      before |-> loaded,
                      prev |-> "none",
                      touched |-> {},
                      since |-> {},
                      calls |-> 0,
                      edits |-> 0]

(* migrate_incremental up to the batch loop: the selection, and the return *)
(* when nothing is selected                                                *)
MigrateIncremental ==
    /\ ~migrator.running
    /\ migrator.calls < MaxMigrations
    /\ \E force_full \in BOOLEAN :
         LET new_items == new_items_of(source, migrator.migrated_items,
                                       force_full)
         IN  migrator' = [migrator EXCEPT
                 !.force_full = force_full,
                 !.new_items = new_items,
                 !.i = 0,
                 !.running = (new_items # <<>>),
                 !.result = IF new_items = <<>> THEN "success" ELSE "none",
                 !.invoked = 0,
                 !.before = migrator.migrated_items,
                 !.prev = migrator.result,
                 !.since = migrator.touched,
                 !.touched = {},
                 !.calls = migrator.calls + 1]
    /\ last' = [op |-> "migrate_incremental"]
    /\ UNCHANGED <<run, source, fn_in, fn_out>>

(* one turn of the batch loop in which the pipeline returns: the hashes of *)
(* the batch are recorded and the state is saved                           *)
BatchReturns ==
    /\ migrator.running
    /\ LET batch == batch_of(migrator.new_items, migrator.i,
                             migrator.batch_size)
           recorded == migrator.migrated_items \cup hashes_of(source, batch)
           i == migrator.i + migrator.batch_size
           more == i < Len(migrator.new_items)
       IN  migrator' = [migrator EXCEPT
               !.invoked = migrator.invoked + 1,
               !.migrated_items = recorded,
               !.state_file = recorded,
               !.i = i,
               !.running = more,
               !.result = IF more THEN "none" ELSE "success"]
    /\ last' = [op |-> "batch_returns"]
    /\ UNCHANGED <<run, source, fn_in, fn_out>>

(* one turn of the batch loop in which the pipeline raises: _migrate_batch *)
(* turns the exception into an error result, which is returned as it is    *)
BatchRaises ==
    /\ migrator.running
    /\ migrator' = [migrator EXCEPT
           !.invoked = migrator.invoked + 1,
           !.running = FALSE,
           !.result = "error"]
    /\ last' = [op |-> "batch_raises"]
    /\ UNCHANGED <<run, source, fn_in, fn_out>>

(* a source file is written between two calls *)
ModifyFile ==
    /\ ~migrator.running
    /\ migrator.edits < MaxEdits
    /\ \E n \in FileIds : \E t \in MTimes :
         /\ source' = [source EXCEPT ![n].mtime = t]
         /\ migrator' = [migrator EXCEPT
                !.touched = migrator.touched \cup {n},
                !.edits = migrator.edits + 1]
    /\ last' = [op |-> "modify"]
    /\ UNCHANGED <<run, fn_in, fn_out>>

NextIncr ==
    \/ MigrateIncremental
    \/ BatchReturns
    \/ BatchRaises
    \/ ModifyFile

SpecIncr == InitIncr /\ [][NextIncr]_vars

(* C39: once a call of migrate_incremental has succeeded, a call made     *)
(* right after it without force_full selects no file and never invokes    *)
(* the pipeline when no source file was written in between, and selects   *)
(* exactly the written file when exactly one was; a call with force_full  *)
(* selects every content file whatever is recorded.                       *)
C39_NextCallSelectsTheModified ==
    last.op = "migrate_incremental" =>
        /\ migrator.force_full =>
               migrator.new_items = [n \in FileIds |-> n]
        /\ (~migrator.force_full /\ migrator.prev = "success") =>
               /\ migrator.since = {} =>
                      /\ migrator.new_items = <<>>
                      /\ ~migrator.running
                      /\ migrator.invoked = 0
               /\ \A n \in FileIds :
                      migrator.since = {n} => migrator.new_items = <<n>>

earlier_items == SubSeq(migrator.new_items, 1,
                        Min(migrator.i, Len(migrator.new_items)))

later_items == SubSeq(migrator.new_items, migrator.i + 1,
                      Len(migrator.new_items))

selected_next == new_items_of(source, migrator.migrated_items, FALSE)

(* C40: when the pipeline fails in batch b the call returns an error      *)
(* result at once and runs no later batch; no file of batch b or of a     *)
(* later batch is recorded in migrated_items, so each of them is selected *)
(* by the next call, and every file of a batch before b is recorded in    *)
(* migrated_items and in the saved state file.                            *)
C40_FailedBatchSelectedAgain ==
    last.op = "batch_raises" =>
        /\ migrator.result = "error"
        /\ ~migrator.running
        /\ \A k \in 1..Len(later_items) :
               /\ _get_item_hash(source[later_items[k]])
                      \notin migrator.migrated_items
               /\ later_items[k] \in Range(selected_next)
        /\ hashes_of(source, earlier_items) \subseteq migrator.migrated_items
        /\ hashes_of(source, earlier_items) \subseteq migrator.state_file

(* C40 as amended: when the pipeline fails in batch b the call returns an *)
(* error result at once, having invoked the pipeline b times; the hashes  *)
(* recorded in migrated_items and in the saved state file are those       *)
(* recorded before the call and those of the files of the batches before  *)
(* b, so the next call selects a file of batch b or of a later batch      *)
(* exactly when its hash is not among these.                              *)
C40_FailedBatchLeavesEarlierRecorded ==
    last.op = "batch_raises" =>
        /\ migrator.result = "error"
        /\ ~migrator.running
        /\ migrator.invoked * migrator.batch_size
               = migrator.i + migrator.batch_size
        /\ migrator.migrated_items
               = migrator.before \cup hashes_of(source, earlier_items)
        /\ migrator.state_file = migrator.migrated_items
        /\ \A k \in 1..Len(later_items) :
               later_items[k] \in Range(selected_next)
                   <=> _get_item_hash(source[later_items[k]])
                           \notin (migrator.before
                                   \cup hashes_of(source, earlier_items))

(* the pipeline failed in a batch after the first, a later batch was left *)
(* unrun, and a file of the failed batch is selected again                *)
C40_Witness ==
    /\ last.op = "batch_raises"
    /\ migrator.i > 0
    /\ Len(later_items) > migrator.batch_size
    /\ later_items[1] \in Range(selected_next)
    /\ hashes_of(source, earlier_items) # {}

====
